---- MODULE Spec2Model ----
(***************************************************************************)
(* A model of two components of Pinniped:                                  *)
(*   - upstreamldap.Provider: TestConnection, AuthenticateUser and         *)
(*     DryRunAuthenticateUser (search-then-bind against an LDAP server);   *)
(*   - oidc.TokenExchangeHandler: the RFC 8693 token exchange handler.     *)
(* Spec is the LDAP provider, SpecSTS the token exchange handler.          *)
(***************************************************************************)
EXTENDS Integers, Sequences, FiniteSets, TLC

VARIABLES
    c,              \* Provider.c, the ProviderConfig
    pc,             \* position of the Provider call in progress
    op,             \* which method was called
    username,       \* argument of AuthenticateUser / DryRunAuthenticateUser
    password,       \* argument of AuthenticateUser
    conn,           \* the Conn returned by dial, with the commands issued on it
    deferred,       \* the deferred calls of the running method
    searchResult,   \* searchAndBindUser: searchResult.Entries
    mappedUsername, \* searchAndBindUser: mappedUsername
    mappedUID,      \* searchAndBindUser: mappedUID
    ret,            \* what the method returned
    requester,      \* fosite.AccessRequester of the token request
    accessTokenStorage, \* oauth2.AccessTokenStorage: signature -> stored request
    responder,      \* fosite.AccessResponder of the token request
    stsPc,          \* position of the token request
    stsErr,         \* the error the handler returned
    stsCalls,       \* the collaborator calls the handler made, in order
    prev,           \* the Provider call that returned before the one in progress
    heap,           \* the backing arrays of the []byte slices
    caBundle,       \* Provider.c.CABundle, a slice
    held,           \* the ProviderConfig value a caller of GetConfig holds
    rootCAs,        \* the bytes dialTLS last appended to the root CAs
    fcfg,           \* userSearchFilter: Filter and UsernameAttribute, as characters
    fusername,      \* userSearchFilter: the username, as characters
    filter,         \* userSearchFilter: the filter returned
    ctxDone,        \* whether the context of the Provider call is cancelled
    hostIn,         \* hostAndPortWithDefaultPort: the host given
    hostOut,        \* dial: what hostAndPortWithDefaultPort and dial returned
    workers,        \* the concurrent calls on one Provider, by worker
    store,          \* the APIService the API server stores
    upd,            \* the UpdateAPIService call in progress
    lastExchange    \* the outcome of the token exchange before this one

ldapVars == <<c, pc, op, username, password, conn, deferred, searchResult,
              mappedUsername, mappedUID, ret>>
stsVars == <<requester, accessTokenStorage, responder, stsPc, stsErr, stsCalls>>
restVars == <<hostIn, hostOut, workers, store, upd, lastExchange>>
extVars == <<prev, heap, caBundle, held, rootCAs, fcfg, fusername, filter, ctxDone, restVars>>
vars == <<ldapVars, stsVars, extVars>>

(***************************************************************************)
(* Bounds                                                                  *)
(***************************************************************************)
\* The most entries the directory returns for one search.
MaxEntries == 2
\* The most grant types a token request carries.
MaxGrantTypes == 2
\* The most characters of a username given to userSearchFilter.
MaxUsernameLen == 3
\* The most characters of a host drawn freely from HostChars.
MaxHostLen == 5
\* The bytes of a CA bundle, and the most byte arrays allocated.
BundleLen == 2
MaxArrays == 2

(***************************************************************************)
(* upstreamldap: constants and values                                      *)
(***************************************************************************)
distinguishedNameAttributeName == "dn"
invalidCredentialsErrorPrefix == "LDAP Result Code 49 \"Invalid Credentials\":"

\* The nil error, and the nil *authenticator.Response.
Nil == [msg |-> "nil"]
NilResponse == [nil |-> TRUE]

\* fmt.Errorf(format, arg, ..., %w): the format, its arguments, the wrapped error.
Errorf(format, args, wrapped) == [msg |-> format, args |-> args, wraps |-> wrapped]

\* The configurations a Provider is constructed with.
ProviderConfigs ==
    [Name : {"ldap1"},
     Host : {"ldap.example.com:8443"},
     BindUsername : {"cn=admin,dc=x"},
     BindPassword : {"adminpw"},
     UserSearch : [Base : {"ou=users,dc=x"},
                   Filter : {"", "(mail={})"},
                   UsernameAttribute : {"dn", "cn"},
                   UIDAttribute : {"dn", "uid"}]]

Usernames == {"", "alice"}
Passwords == {"pw"}
Ops == {"TestConnection", "DryRunAuthenticateUser", "AuthenticateUser"}

\* The values an entry carries for one attribute: none, an empty one, one, two.
AttributeValues == {<<>>, <<"">>, <<"v1">>, <<"v1", "v2">>}

\* ldap.Entry: DN and Attributes ([]*EntryAttribute, each Name and Values).
Entries ==
    {[DN |-> dn,
      Attributes |-> <<[Name |-> "cn", Values |-> cn], [Name |-> "uid", Values |-> uid]>>] :
        dn \in {"", "cn=alice,ou=users,dc=x"}, cn \in AttributeValues, uid \in AttributeValues}

GoodEntry ==
    [DN |-> "cn=alice,ou=users,dc=x",
     Attributes |-> <<[Name |-> "cn", Values |-> <<"v1">>], [Name |-> "uid", Values |-> <<"v1">>]>>]

\* What conn.Search returns: the entries of a result.
SearchResults ==
    {<<>>} \cup {<<e>> : e \in Entries}
           \cup {[i \in 1..n |-> GoodEntry] : n \in 2..MaxEntries}

\* Errors of the connection: message as prefix and rest.
NetworkError == [msg |-> "LDAP Result Code 200 \"Network Error\":", rest |-> "EOF"]
InvalidCredentials == [msg |-> invalidCredentialsErrorPrefix, rest |-> "bad password"]
BindErrors == {InvalidCredentials, NetworkError}

\* strings.HasPrefix(err.Error(), prefix) for the errors above.
HasPrefix(e, prefix) == e.msg = prefix

\* No connection. A Conn records the commands issued on it (cmds) and the error
\* each of them returned (errs).
NoConn == [dialed |-> FALSE, open |-> FALSE, closes |-> 0, cmds |-> <<>>, errs |-> <<>>]

BindCmd(u, p) == [cmd |-> "Bind", username |-> u, password |-> p]
SearchCmd(req) == [cmd |-> "Search", req |-> req]
CloseCmd == [cmd |-> "Close"]


(***************************************************************************)
(* upstreamldap: helpers                                                   *)
(***************************************************************************)
SizeLimit == 2
TimeLimit == 90

\* Provider.validateConfig
validateConfig(cfg) ==
    IF cfg.UserSearch.UsernameAttribute = distinguishedNameAttributeName
       /\ cfg.UserSearch.Filter = ""
    THEN Errorf("must specify UserSearch Filter when UserSearch UsernameAttribute is \"dn\"",
                <<>>, Nil)
    ELSE Nil

\* Provider.userSearchRequestedAttributes
userSearchRequestedAttributes(cfg) ==
    (IF cfg.UserSearch.UsernameAttribute # distinguishedNameAttributeName
     THEN <<cfg.UserSearch.UsernameAttribute>> ELSE <<>>)
    \o (IF cfg.UserSearch.UIDAttribute # distinguishedNameAttributeName
        THEN <<cfg.UserSearch.UIDAttribute>> ELSE <<>>)

\* Provider.userSearchRequest (the filter is built from Filter, UsernameAttribute
\* and the username; its text is not part of this record)
userSearchRequest(cfg, u) ==
    [BaseDN |-> cfg.UserSearch.Base,
     SizeLimit |-> SizeLimit,
     TimeLimit |-> TimeLimit,
     TypesOnly |-> FALSE,
     FilterFor |-> u,
     Attributes |-> userSearchRequestedAttributes(cfg)]

\* ldap.Entry.GetAttributeValues: the values of the first attribute of that name.
GetAttributeValues(entry, name) ==
    LET idx == {i \in 1..Len(entry.Attributes) : entry.Attributes[i].Name = name}
    IN IF idx = {} THEN <<>>
       ELSE entry.Attributes[CHOOSE i \in idx : \A j \in idx : i <= j].Values

\* A variant of getSearchResultAttributeValue that takes the first value of an
\* attribute with several values.
getSearchResultAttributeValueFirst(attributeName, fromUserEntry, u) ==
    IF attributeName = distinguishedNameAttributeName
    THEN [value |-> fromUserEntry.DN, err |-> Nil]
    ELSE LET attributeValues == GetAttributeValues(fromUserEntry, attributeName)
         IN IF Len(attributeValues) < 1
            THEN [value |-> "",
                  err |-> Errorf("found %d values for attribute \"%s\" while searching for user \"%s\", but expected 1 result",
                                 <<ToString(Len(attributeValues)), attributeName, u>>, Nil)]
            ELSE IF attributeValues[1] = ""
            THEN [value |-> "",
                  err |-> Errorf("found empty value for attribute \"%s\" while searching for user \"%s\", but expected value to be non-empty",
                                 <<attributeName, u>>, Nil)]
            ELSE [value |-> attributeValues[1], err |-> Nil]

\* Provider.getSearchResultAttributeValue
getSearchResultAttributeValue(attributeName, fromUserEntry, u) ==
    IF attributeName = distinguishedNameAttributeName
    THEN [value |-> fromUserEntry.DN, err |-> Nil]
    ELSE LET attributeValues == GetAttributeValues(fromUserEntry, attributeName)
         IN IF Len(attributeValues) # 1
            THEN [value |-> "",
                  err |-> Errorf("found %d values for attribute \"%s\" while searching for user \"%s\", but expected 1 result",
                                 <<ToString(Len(attributeValues)), attributeName, u>>, Nil)]
            ELSE IF attributeValues[1] = ""
            THEN [value |-> "",
                  err |-> Errorf("found empty value for attribute \"%s\" while searching for user \"%s\", but expected value to be non-empty",
                                 <<attributeName, u>>, Nil)]
            ELSE [value |-> attributeValues[1], err |-> Nil]

\* A variant of searchAndBindUserEntries that goes on with the first entry when
\* the search returned several.
searchAndBindUserEntriesFirst(cfg, entries, u) ==
    LET stop(e) == [mappedUsername |-> "", mappedUID |-> "", err |-> e, proceed |-> FALSE]
    IN IF Len(entries) = 0 THEN stop(Nil)
       ELSE LET userEntry == entries[1]
                mu == getSearchResultAttributeValue(cfg.UserSearch.UsernameAttribute, userEntry, u)
                muid == getSearchResultAttributeValue(cfg.UserSearch.UIDAttribute, userEntry, u)
            IN IF userEntry.DN = ""
               THEN stop(Errorf("searching for user \"%s\" resulted in search result without DN",
                                <<u>>, Nil))
               ELSE IF mu.err # Nil THEN stop(mu.err)
               ELSE IF muid.err # Nil THEN stop(muid.err)
               ELSE [mappedUsername |-> mu.value, mappedUID |-> muid.value,
                     err |-> Nil, proceed |-> TRUE]

\* Provider.searchAndBindUser, from the search result to the end-user bind:
\* proceed says whether bindFunc is reached.
searchAndBindUserEntries(cfg, entries, u) ==
    LET stop(e) == [mappedUsername |-> "", mappedUID |-> "", err |-> e, proceed |-> FALSE]
    IN IF Len(entries) = 0 THEN stop(Nil)
       ELSE IF Len(entries) > 1
       THEN stop(Errorf("searching for user \"%s\" resulted in %d search results, but expected 1 result",
                        <<u, ToString(Len(entries))>>, Nil))
       ELSE LET userEntry == entries[1]
                mu == getSearchResultAttributeValue(cfg.UserSearch.UsernameAttribute, userEntry, u)
                muid == getSearchResultAttributeValue(cfg.UserSearch.UIDAttribute, userEntry, u)
            IN IF userEntry.DN = ""
               THEN stop(Errorf("searching for user \"%s\" resulted in search result without DN",
                                <<u>>, Nil))
               ELSE IF mu.err # Nil THEN stop(mu.err)
               ELSE IF muid.err # Nil THEN stop(muid.err)
               ELSE [mappedUsername |-> mu.value, mappedUID |-> muid.value,
                     err |-> Nil, proceed |-> TRUE]

\* A variant of endUserBindFunc that searches again (for the user's groups) on
\* the connection after the end-user bind.
endUserBindFuncThenSearch(o, cn, foundUserDN, pw, outcome) ==
    IF o = "AuthenticateUser"
    THEN [conn |-> [cn EXCEPT !.cmds = @ \o <<BindCmd(foundUserDN, pw),
                                               SearchCmd([BaseDN |-> foundUserDN])>>,
                              !.errs = @ \o <<outcome, Nil>>],
          err |-> outcome]
    ELSE [conn |-> cn, err |-> Nil]

\* A variant of endUserBindFunc in which the dry run binds as the found DN too,
\* with the (empty) password it has.
endUserBindFuncAlways(o, cn, foundUserDN, pw, outcome) ==
    [conn |-> [cn EXCEPT !.cmds = Append(@, BindCmd(foundUserDN, pw)),
                         !.errs = Append(@, outcome)],
     err |-> outcome]

\* The endUserBindFunc of AuthenticateUser (binds as the found DN) and of
\* DryRunAuthenticateUser (acts as if the bind succeeded): the conn and the error.
endUserBindFunc(o, cn, foundUserDN, pw, outcome) ==
    IF o = "AuthenticateUser"
    THEN [conn |-> [cn EXCEPT !.cmds = Append(@, BindCmd(foundUserDN, pw)),
                              !.errs = Append(@, outcome)],
          err |-> outcome]
    ELSE [conn |-> cn, err |-> Nil]

\* A variant of searchAndBindUserResult that takes every error of the end-user
\* bind for invalid credentials.
searchAndBindUserResultAnyError(mu, muid, bindErr, u, dn) ==
    IF bindErr # Nil
    THEN [mappedUsername |-> "", mappedUID |-> "", err |-> Nil]
    ELSE [mappedUsername |-> mu, mappedUID |-> muid, err |-> Nil]

\* Provider.searchAndBindUser, after bindFunc returned bindErr.
searchAndBindUserResult(mu, muid, bindErr, u, dn) ==
    IF bindErr # Nil
    THEN IF HasPrefix(bindErr, invalidCredentialsErrorPrefix)
         THEN [mappedUsername |-> "", mappedUID |-> "", err |-> Nil]
         ELSE [mappedUsername |-> "", mappedUID |-> "",
               err |-> Errorf("error binding for user \"%s\" using provided password against DN \"%s\": %w",
                              <<u, dn>>, bindErr)]
    ELSE [mappedUsername |-> mu, mappedUID |-> muid, err |-> Nil]

\* A variant of authenticateUserImplResult that fills Name from the UID
\* attribute and UID from the username attribute.
authenticateUserImplResultSwapped(r) ==
    IF r.err # Nil THEN [response |-> NilResponse, authenticated |-> FALSE, err |-> r.err]
    ELSE IF r.mappedUsername = "" \/ r.mappedUID = ""
    THEN [response |-> NilResponse, authenticated |-> FALSE, err |-> Nil]
    ELSE [response |-> [Name |-> r.mappedUID, UID |-> r.mappedUsername, Groups |-> <<>>],
          authenticated |-> TRUE, err |-> Nil]

\* Provider.authenticateUserImpl, after searchAndBindUser returned r.
authenticateUserImplResult(r) ==
    IF r.err # Nil THEN [response |-> NilResponse, authenticated |-> FALSE, err |-> r.err]
    ELSE IF r.mappedUsername = "" \/ r.mappedUID = ""
    THEN [response |-> NilResponse, authenticated |-> FALSE, err |-> Nil]
    ELSE [response |-> [Name |-> r.mappedUsername, UID |-> r.mappedUID, Groups |-> <<>>],
          authenticated |-> TRUE, err |-> Nil]

\* Conn.Close
Close(cn) ==
    [cn EXCEPT !.open = FALSE, !.closes = @ + 1, !.cmds = Append(@, CloseCmd),
               !.errs = Append(@, Nil)]

\* The deferred calls of a returning method, last registered first.
RECURSIVE RunDeferred(_, _)
RunDeferred(cn, d) ==
    IF d = <<>> THEN cn
    ELSE RunDeferred(IF d[Len(d)] = "conn.Close" THEN Close(cn) ELSE cn,
                     SubSeq(d, 1, Len(d) - 1))

\* A return of the running method with value r, conn being cn.
Return(cn, r) ==
    /\ ret' = r
    /\ pc' = "returned"
    /\ conn' = RunDeferred(cn, deferred)
    /\ deferred' = <<>>

\* The value TestConnection returns for error e.
ErrOnly(e) == [response |-> NilResponse, authenticated |-> FALSE, err |-> e]

(***************************************************************************)
(* upstreamldap: the configuration of a Provider and its copies            *)
(***************************************************************************)
\* A []byte is a slice: the backing array it refers to and its length. The
\* arrays live in heap, a sequence indexed by array.
Bytes == {"-", "X"}
Bundles == [1..BundleLen -> Bytes]
InitialBundle == [i \in 1..BundleLen |-> "-"]
Slice(array) == [array |-> array, len |-> BundleLen]
\* The bytes a slice refers to.
BytesOf(sl) == SubSeq(heap[sl.array], 1, sl.len)

\* A ProviderConfig value: the fields of strings and nested structs (copied
\* with the value), and the CABundle slice (the slice is copied, the array it
\* refers to is not).
ConfigValue(cfg, bundle) == [config |-> cfg, CABundle |-> bundle]

\* New(config): the Provider keeps a copy of the value; the caller still has
\* its own.
New ==
    /\ heap = <<InitialBundle>>
    /\ caBundle = Slice(1)
    /\ held = ConfigValue(c, caBundle)
    /\ rootCAs = <<>>

\* Provider.GetConfig: return p.c
GetConfig ==
    /\ held' = ConfigValue(c, caBundle)
    /\ UNCHANGED <<ldapVars, stsVars, prev, heap, caBundle, rootCAs, fcfg, fusername, filter, ctxDone, restVars>>

\* The caller assigns to a string field of the value it holds.
SetHost ==
    /\ \E h \in {c.Host, "ldap.other.example.com:636"} :
         held' = [held EXCEPT !.config.Host = h]
    /\ UNCHANGED <<ldapVars, stsVars, prev, heap, caBundle, rootCAs, fcfg, fusername, filter, ctxDone, restVars>>

\* The caller assigns a new slice to the CABundle field of the value it holds.
SetCABundle ==
    /\ Len(heap) < MaxArrays
    /\ \E b \in Bundles :
         /\ heap' = Append(heap, b)
         /\ held' = [held EXCEPT !.CABundle = Slice(Len(heap) + 1)]
    /\ UNCHANGED <<ldapVars, stsVars, prev, caBundle, rootCAs, fcfg, fusername, filter, ctxDone, restVars>>

\* The caller writes a byte of the CABundle of the value it holds:
\* cfg.CABundle[i] = b
WriteCABundleByte ==
    /\ \E i \in 1..held.CABundle.len, b \in Bytes :
         heap' = [heap EXCEPT ![held.CABundle.array][i] = b]
    /\ UNCHANGED <<ldapVars, stsVars, prev, caBundle, held, rootCAs, fcfg, fusername, filter, ctxDone, restVars>>

\* Provider.dialTLS, reached from TestConnection and authenticateUserImpl:
\* rootCAs.AppendCertsFromPEM(p.c.CABundle)
DialTLS ==
    /\ rootCAs' = BytesOf(caBundle)
    /\ UNCHANGED <<ldapVars, stsVars, prev, heap, caBundle, held, fcfg, fusername, filter, ctxDone, restVars>>

(***************************************************************************)
(* upstreamldap: the host of the configuration, character by character     *)
(***************************************************************************)
\* ldap.DefaultLdapsPort
DefaultLdapsPort == <<"6", "3", "6">>

HostChars == {"h", "1", ":", "[", "]"}
\* The hosts: every string of up to MaxHostLen characters, and the bracketed
\* IPv6 forms with and without a port.
Hosts ==
    UNION {[1..n -> HostChars] : n \in 0..MaxHostLen}
    \cup {<<"[", ":", ":", "1", "]">>,
          <<"[", ":", ":", "1", "]", ":", "1">>,
          <<"[", ":", ":", "1", "]", ":", "1", "1">>,
          <<"h", "h", ":", "1", "1">>,
          <<"[", ":", ":", "1", "]", "1">>,
          <<"[", ":", ":", "1", "]", ":", "1", ":", "1">>}

\* strings.LastIndexByte and strings.IndexByte, counting from 1; 0 when absent.
LastIndex(str, ch) ==
    LET at == {i \in 1..Len(str) : str[i] = ch}
    IN IF at = {} THEN 0 ELSE CHOOSE i \in at : \A j \in at : j <= i
FirstIndex(str, ch) ==
    LET at == {i \in 1..Len(str) : str[i] = ch}
    IN IF at = {} THEN 0 ELSE CHOOSE i \in at : \A j \in at : i <= j

\* net.SplitHostPort: host, port and the Err of the AddrError ("" for nil).
SplitHostPort(hostport) ==
    LET addrErr(why) == [host |-> <<>>, port |-> <<>>, err |-> why]
        i == LastIndex(hostport, ":")
        end == FirstIndex(hostport, "]")
        bracketed == hostport[1] = "["
        host == IF bracketed THEN SubSeq(hostport, 2, end - 1) ELSE SubSeq(hostport, 1, i - 1)
        \* hostport[j:] and hostport[k:]
        fromJ == IF bracketed THEN Tail(hostport) ELSE hostport
        fromK == IF bracketed THEN SubSeq(hostport, end + 1, Len(hostport)) ELSE hostport
    IN IF i = 0 THEN addrErr("missing port in address")
       ELSE IF bracketed /\ end = 0 THEN addrErr("missing ']' in address")
       ELSE IF bracketed /\ end = Len(hostport) THEN addrErr("missing port in address")
       ELSE IF bracketed /\ end + 1 # i
       THEN IF hostport[end + 1] = ":" THEN addrErr("too many colons in address")
            ELSE addrErr("missing port in address")
       ELSE IF ~bracketed /\ FirstIndex(host, ":") # 0
       THEN addrErr("too many colons in address")
       ELSE IF FirstIndex(fromJ, "[") # 0 THEN addrErr("unexpected '[' in address")
       ELSE IF FirstIndex(fromK, "]") # 0 THEN addrErr("unexpected ']' in address")
       ELSE [host |-> host, port |-> SubSeq(hostport, i + 1, Len(hostport)), err |-> ""]

\* net.JoinHostPort
JoinHostPort(host, port) ==
    IF FirstIndex(host, ":") # 0
    THEN <<"[">> \o host \o <<"]", ":">> \o port
    ELSE host \o <<":">> \o port

\* A variant of hostAndPortWithDefaultPort that joins host and port with
\* net.JoinHostPort whenever there is a port.
hostAndPortWithDefaultPortJoined(hostAndPort, defaultPort) ==
    LET split == SplitHostPort(hostAndPort)
        missing == split.err = "missing port in address"
        host == IF missing THEN hostAndPort ELSE split.host
        port == IF missing THEN defaultPort ELSE split.port
    IN IF split.err # "" /\ ~missing THEN [value |-> <<>>, err |-> split.err]
       ELSE IF port # <<>> THEN [value |-> JoinHostPort(host, port), err |-> ""]
       ELSE [value |-> host, err |-> ""]

\* hostAndPortWithDefaultPort: the string and the error ("" for nil).
hostAndPortWithDefaultPort(hostAndPort, defaultPort) ==
    LET split == SplitHostPort(hostAndPort)
        missing == split.err = "missing port in address"
        host == IF missing THEN hostAndPort ELSE split.host
        port == IF missing THEN defaultPort ELSE split.port
    IN IF split.err # "" /\ ~missing THEN [value |-> <<>>, err |-> split.err]
       ELSE IF port # <<>> /\ host # <<>> /\ host[1] = "[" /\ host[Len(host)] = "]"
       THEN [value |-> host \o <<":">> \o port, err |-> ""]
       ELSE IF port # <<>> THEN [value |-> JoinHostPort(host, port), err |-> ""]
       ELSE [value |-> host, err |-> ""]

\* Provider.dial: the host is normalized, and the Dialer (or dialTLS) is called
\* with the result; a host that is not parsable gives a network error, no
\* dialer being called. dialer holds the arguments of the calls of the dialer.
DialHost ==
    /\ hostOut = [pending |-> TRUE]
    /\ LET r == hostAndPortWithDefaultPort(hostIn, DefaultLdapsPort)
       IN IF r.err # ""
          THEN hostOut' = [hostAndPort |-> r.value,
                           err |-> [class |-> "ErrorNetwork", wraps |-> r.err],
                           dialer |-> <<>>]
          ELSE \E outcome \in {"", "connection refused"} :
                 hostOut' = [hostAndPort |-> r.value,
                             err |-> IF outcome = "" THEN [class |-> "nil", wraps |-> ""]
                                     ELSE [class |-> "ErrorNetwork", wraps |-> outcome],
                             dialer |-> <<r.value>>]
    /\ UNCHANGED <<ldapVars, stsVars, prev, heap, caBundle, held, rootCAs, fcfg, fusername,
                   filter, ctxDone, hostIn, workers, store, upd, lastExchange>>

(***************************************************************************)
(* upstreamldap: the search filter, character by character                 *)
(***************************************************************************)
\* Strings are sequences of one-character strings here.
userSearchFilterInterpolationLocationMarker == <<"{", "}">>

\* The characters of usernames: a letter, the characters special to filters,
\* and the characters of the marker.
UsernameChars == {"a", "(", ")", "*", "\\", "{", "}"}

\* The non-empty usernames (authenticateUserImpl returns before the search for
\* an empty one).
FilterUsernames ==
    UNION {[1..n -> UsernameChars] : n \in 1..MaxUsernameLen}

\* UserSearch.Filter and UserSearch.UsernameAttribute of the configurations:
\* no filter, filters with and without outer parentheses, with one marker,
\* two markers, the marker alone, and the marker between braces.
FilterConfigs ==
    [Filter : {<<>>,
               <<"(", "m", "=", "{", "}", ")">>,
               <<"c", "n", "=", "{", "}">>,
               <<"(", "|", "(", "c", "=", "{", "}", ")", "(", "u", "=", "{", "}", ")", ")">>,
               <<"{", "}">>,
               <<"(", "c", "=", "{", "}", ")", "(", "u", "=", "*", ")">>,
               <<"(", "c", "=", "{", "{", "}", "}", ")">>},
     UsernameAttribute : {<<"c", "n">>, <<"u", "i", "d">>}]

\* strings.ReplaceAll(s, old, new) for a non-empty old: the non-overlapping
\* occurrences of old, from the left, replaced by new.
RECURSIVE ReplaceAll(_, _, _)
ReplaceAll(s, old, new) ==
    IF Len(s) < Len(old) THEN s
    ELSE IF SubSeq(s, 1, Len(old)) = old
    THEN new \o ReplaceAll(SubSeq(s, Len(old) + 1, Len(s)), old, new)
    ELSE <<s[1]>> \o ReplaceAll(Tail(s), old, new)

\* ldap.EscapeFilter: each of ( ) \ * becomes a backslash and the two
\* lower-case hexadecimal digits of its code; other characters of UsernameChars
\* are kept.
mustEscape(ch) == ch \in {"(", ")", "\\", "*"}
RECURSIVE EscapeFilter(_)
EscapeFilter(s) ==
    IF s = <<>> THEN <<>>
    ELSE (IF mustEscape(s[1])
          THEN <<"\\">> \o (CASE s[1] = "(" -> <<"2", "8">>
                              [] s[1] = ")" -> <<"2", "9">>
                              [] s[1] = "*" -> <<"2", "a">>
                              [] s[1] = "\\" -> <<"5", "c">>)
          ELSE <<s[1]>>)
         \o EscapeFilter(Tail(s))

\* A variant of escapeUsernameForSearchFilter that leaves the username as it is.
escapeUsernameForSearchFilterRaw(u) == u

\* Provider.escapeUsernameForSearchFilter
escapeUsernameForSearchFilter(u) == EscapeFilter(u)

\* Provider.userSearchFilter
userSearchFilter(cfg, u) ==
    LET safeUsername == escapeUsernameForSearchFilter(u)
        replaced == ReplaceAll(cfg.Filter, userSearchFilterInterpolationLocationMarker,
                               safeUsername)
    IN IF Len(cfg.Filter) = 0
       THEN <<"(">> \o cfg.UsernameAttribute \o <<"=">> \o safeUsername \o <<")">>
       ELSE IF replaced # <<>> /\ replaced[1] = "(" /\ replaced[Len(replaced)] = ")"
       THEN replaced
       ELSE <<"(">> \o replaced \o <<")">>

\* userSearchRequest computes the Filter of the search request.
UserSearchFilter ==
    /\ filter = <<>>
    /\ filter' = userSearchFilter(fcfg, fusername)
    /\ UNCHANGED <<ldapVars, stsVars, prev, heap, caBundle, held, rootCAs, fcfg, fusername, ctxDone, restVars>>

(***************************************************************************)
(* upstreamldap: the steps of TestConnection and authenticateUserImpl      *)
(***************************************************************************)
\* A caller invokes one of the three methods.
CallWith ==
    /\ pc \in {"idle", "returned"}
    /\ \E o \in Ops, u \in Usernames, p \in Passwords :
         /\ op' = o
         /\ username' = (IF o = "TestConnection" THEN "" ELSE u)
         /\ password' = (IF o = "AuthenticateUser" THEN p ELSE "")
    /\ pc' = "validateConfig"
    /\ conn' = NoConn
    /\ deferred' = <<>>
    /\ searchResult' = <<>>
    /\ mappedUsername' = ""
    /\ mappedUID' = ""
    /\ ret' = ErrOnly(Nil)
    /\ ctxDone' = FALSE
    /\ UNCHANGED <<c, stsVars, heap, caBundle, held, rootCAs, fcfg, fusername, filter, restVars>>

\* The call, as seen by the provider alone.
Call == CallWith /\ UNCHANGED prev

\* The call, remembering the call that returned before it.
CallAfter ==
    /\ CallWith
    /\ prev' = [op |-> op, username |-> username, conn |-> conn,
                searchResult |-> searchResult, ret |-> ret]

\* A variant of ValidateConfig that checks for the empty username before it
\* validates the configuration.
ValidateConfigAfterUsername ==
    /\ pc = "validateConfig"
    /\ LET err == validateConfig(c)
       IN IF op # "TestConnection" /\ username = ""
          THEN Return(conn, [response |-> NilResponse, authenticated |-> FALSE, err |-> Nil])
          ELSE IF err # Nil THEN Return(conn, ErrOnly(err))
          ELSE /\ pc' = "dial"
               /\ UNCHANGED <<conn, deferred, ret>>
    /\ UNCHANGED <<c, op, username, password, searchResult, mappedUsername, mappedUID, stsVars, extVars>>

\* A variant of ValidateConfig without the check for the empty username.
ValidateConfigOnly ==
    /\ pc = "validateConfig"
    /\ LET err == validateConfig(c)
       IN IF err # Nil THEN Return(conn, ErrOnly(err))
          ELSE /\ pc' = "dial"
               /\ UNCHANGED <<conn, deferred, ret>>
    /\ UNCHANGED <<c, op, username, password, searchResult, mappedUsername, mappedUID, stsVars, extVars>>

\* p.validateConfig() and, in authenticateUserImpl, the empty-username check.
ValidateConfig ==
    /\ pc = "validateConfig"
    /\ LET err == validateConfig(c)
       IN IF err # Nil THEN Return(conn, ErrOnly(err))
          ELSE IF op # "TestConnection" /\ username = ""
          THEN Return(conn, [response |-> NilResponse, authenticated |-> FALSE, err |-> Nil])
          ELSE /\ pc' = "dial"
               /\ UNCHANGED <<conn, deferred, ret>>
    /\ UNCHANGED <<c, op, username, password, searchResult, mappedUsername, mappedUID, stsVars, extVars>>

\* A variant of Dial that does not defer conn.Close().
DialWithoutDefer ==
    /\ pc = "dial"
    /\ \E outcome \in {Nil, NetworkError} :
         IF outcome # Nil
         THEN Return(conn, ErrOnly(Errorf("error dialing host \"%s\": %w", <<c.Host>>, outcome)))
         ELSE /\ conn' = [dialed |-> TRUE, open |-> TRUE, closes |-> 0, cmds |-> <<>>, errs |-> <<>>]
              /\ pc' = "bind"
              /\ UNCHANGED <<deferred, ret>>
    /\ UNCHANGED <<c, op, username, password, searchResult, mappedUsername, mappedUID, stsVars, extVars>>

\* The caller cancels the context of the call in progress.
Cancel ==
    /\ pc \notin {"idle", "returned"}
    /\ ~ctxDone
    /\ ctxDone' = TRUE
    /\ UNCHANGED <<ldapVars, stsVars, prev, heap, caBundle, held, rootCAs, fcfg, fusername,
                   filter, restVars>>

\* conn, err := p.dial(ctx); defer conn.Close(). The dial is the one call that
\* is given ctx: with ctx cancelled, DialContext returns its error.
Dial ==
    /\ pc = "dial"
    /\ \E outcome \in (IF ctxDone THEN {NetworkError} ELSE {Nil, NetworkError}) :
         IF outcome # Nil
         THEN Return(conn, ErrOnly(Errorf("error dialing host \"%s\": %w", <<c.Host>>, outcome)))
         ELSE /\ conn' = [dialed |-> TRUE, open |-> TRUE, closes |-> 0, cmds |-> <<>>, errs |-> <<>>]
              /\ deferred' = Append(deferred, "conn.Close")
              /\ pc' = "bind"
              /\ UNCHANGED ret
    /\ UNCHANGED <<c, op, username, password, searchResult, mappedUsername, mappedUID, stsVars, extVars>>

\* A variant of BindServiceAccount in which TestConnection reports a failed
\* bind as it reports a failed dial.
BindServiceAccountAsDial ==
    /\ pc = "bind"
    /\ \E outcome \in {Nil} \cup BindErrors :
         LET bound == [conn EXCEPT !.cmds = Append(@, BindCmd(c.BindUsername, c.BindPassword)),
                                   !.errs = Append(@, outcome)]
         IN IF outcome # Nil
            THEN Return(bound,
                        ErrOnly(IF op = "TestConnection"
                                THEN Errorf("error dialing host \"%s\": %w", <<c.Host>>, outcome)
                                ELSE Errorf("error binding as \"%s\" before user search: %w",
                                            <<c.BindUsername>>, outcome)))
            ELSE IF op = "TestConnection"
            THEN Return(bound, ErrOnly(Nil))
            ELSE /\ conn' = bound
                 /\ pc' = "search"
                 /\ UNCHANGED <<deferred, ret>>
    /\ UNCHANGED <<c, op, username, password, searchResult, mappedUsername, mappedUID, stsVars, extVars>>

\* conn.Bind(p.c.BindUsername, p.c.BindPassword)
BindServiceAccount ==
    /\ pc = "bind"
    /\ \E outcome \in {Nil} \cup BindErrors :
         LET bound == [conn EXCEPT !.cmds = Append(@, BindCmd(c.BindUsername, c.BindPassword)),
                                   !.errs = Append(@, outcome)]
         IN IF outcome # Nil
            THEN Return(bound,
                        ErrOnly(Errorf(IF op = "TestConnection"
                                       THEN "error binding as \"%s\": %w"
                                       ELSE "error binding as \"%s\" before user search: %w",
                                       <<c.BindUsername>>, outcome)))
            ELSE IF op = "TestConnection"
            THEN Return(bound, ErrOnly(Nil))
            ELSE /\ conn' = bound
                 /\ pc' = "search"
                 /\ UNCHANGED <<deferred, ret>>
    /\ UNCHANGED <<c, op, username, password, searchResult, mappedUsername, mappedUID, stsVars, extVars>>

\* searchAndBindUser: conn.Search(p.userSearchRequest(username)), and the
\* checks of the result up to the end-user bind.
Search ==
    /\ pc = "search"
    /\ LET searchedWith(e) ==
               [conn EXCEPT !.cmds = Append(@, SearchCmd(userSearchRequest(c, username))),
                            !.errs = Append(@, e)]
           searched == searchedWith(Nil)
       IN \/ /\ Return(searchedWith(NetworkError),
                       authenticateUserImplResult(
                           [mappedUsername |-> "", mappedUID |-> "",
                            err |-> Errorf("error searching for user \"%s\": %w",
                                           <<username>>, NetworkError)]))
             /\ UNCHANGED <<searchResult, mappedUsername, mappedUID>>
          \/ \E entries \in SearchResults :
               LET r == searchAndBindUserEntries(c, entries, username)
               IN /\ searchResult' = entries
                  /\ IF r.proceed
                     THEN /\ mappedUsername' = r.mappedUsername
                          /\ mappedUID' = r.mappedUID
                          /\ conn' = searched
                          /\ pc' = "endUserBind"
                          /\ UNCHANGED <<deferred, ret>>
                     ELSE /\ Return(searched, authenticateUserImplResult(r))
                          /\ UNCHANGED <<mappedUsername, mappedUID>>
    /\ UNCHANGED <<c, op, username, password, stsVars, extVars>>

\* searchAndBindUser: bindFunc(conn, userEntry.DN), and the return of
\* authenticateUserImpl.
EndUserBind ==
    /\ pc = "endUserBind"
    /\ \E outcome \in {Nil} \cup BindErrors :
         LET b == endUserBindFunc(op, conn, searchResult[1].DN, password, outcome)
             r == searchAndBindUserResult(mappedUsername, mappedUID, b.err,
                                          username, searchResult[1].DN)
         IN Return(b.conn, authenticateUserImplResult(r))
    /\ UNCHANGED <<c, op, username, password, searchResult, mappedUsername, mappedUID, stsVars, extVars>>

LdapInit ==
    /\ c \in ProviderConfigs
    /\ pc = "idle"
    /\ op = "TestConnection"
    /\ username = ""
    /\ password = ""
    /\ conn = NoConn
    /\ deferred = <<>>
    /\ searchResult = <<>>
    /\ mappedUsername = ""
    /\ mappedUID = ""
    /\ ret = ErrOnly(Nil)


(***************************************************************************)
(* oidc token exchange: constants and values                               *)
(***************************************************************************)
tokenTypeAccessToken == "urn:ietf:params:oauth:token-type:access_token"
tokenTypeJWT == "urn:ietf:params:oauth:token-type:jwt"
GrantTypeTokenExchange == "urn:ietf:params:oauth:grant-type:token-exchange"
ScopeRequestAudience == "pinniped:request-audience"
ScopeOpenID == "openid"
ScopeUsername == "username"
IDTokenClaimUsername == "username"

\* The audience is a sequence of characters, so that substrings are what they
\* are in the code. The other form values are whole strings.
ClientIDPinnipedCLI == <<"p", "i", "n", "n", "i", "p", "e", "d", "-", "c", "l", "i">>
DotPinnipedDev == <<".", "p", "i", "n", "n", "i", "p", "e", "d", ".", "d", "e", "v">>

\* strings.Contains(s, substr)
Contains(s, substr) ==
    \E i \in 0..(Len(s) - Len(substr)) : SubSeq(s, i + 1, i + Len(substr)) = substr

\* The errors of fosite, by the name of the variable; WithHint sets the hint
\* (WithHintf: the format and its arguments).
NilErr == [name |-> "nil", hint |-> <<>>]
WithHint(name, hint) == [name |-> name, hint |-> hint]
ErrUnknownRequest == WithHint("ErrUnknownRequest", <<>>)
ErrNotFound == WithHint("ErrNotFound", <<>>)
\* What the access token strategy's ValidateAccessToken may return.
ValidateAccessTokenErrors ==
    {WithHint("ErrTokenExpired", <<>>), WithHint("ErrTokenSignatureMismatch", <<>>),
     WithHint("ErrRequestUnauthorized", <<>>)}
\* What the ID token strategy's GenerateIDToken may return.
GenerateIDTokenErrors == {WithHint("ErrServerError", <<"Failed to generate id token">>)}

\* The audiences of the requests.
Audiences ==
    {<<>>,
     <<"c", "l", "u", "s", "t", "e", "r", "-", "a">>,
     ClientIDPinnipedCLI,
     ClientIDPinnipedCLI \o <<" ">>,
     <<"P">> \o Tail(ClientIDPinnipedCLI),
     DotPinnipedDev,
     <<"f", "o", "o">> \o DotPinnipedDev \o <<"/", "x">>,
     <<".", "P", "I", "N", "N", "I", "P", "E", "D", ".", "D", "E", "V">>,
     Tail(DotPinnipedDev),
     <<"f", "o", "o", "x">> \o Tail(DotPinnipedDev) \o <<"b", "a", "r">>}

\* The sequences over S of length at most n.
SeqUpTo(S, n) == UNION {[1..k -> S] : k \in 0..n}

GrantTypeLists == SeqUpTo({GrantTypeTokenExchange, "authorization_code"}, MaxGrantTypes)

\* The form parameters besides audience and subject_token.
OtherParams ==
    LET ok == [subject_token_type |-> tokenTypeAccessToken,
               requested_token_type |-> tokenTypeJWT,
               resource |-> "", scope |-> "", actor_token |-> "", actor_token_type |-> ""]
    IN {ok,
        [ok EXCEPT !.subject_token_type = tokenTypeJWT],
        [ok EXCEPT !.requested_token_type = tokenTypeAccessToken],
        [ok EXCEPT !.resource = "r"],
        [ok EXCEPT !.scope = "s"],
        [ok EXCEPT !.actor_token = "a"],
        [ok EXCEPT !.actor_token_type = "t"],
        [ok EXCEPT !.subject_token_type = "", !.requested_token_type = "",
                   !.scope = "s", !.actor_token_type = "t"]}

\* Client IDs are sequences of characters, as audiences are.
ClientA == <<"c", "l", "i", "e", "n", "t", "-", "a">>
ClientB == <<"c", "l", "i", "e", "n", "t", "-", "b">>
ClientIDs == {ClientA, ClientB}
MayExchange == <<"authorization_code", GrantTypeTokenExchange>>
\* The authenticated clients of the requests.
Clients ==
    {[ID |-> ClientA, GrantTypes |-> MayExchange],
     [ID |-> ClientB, GrantTypes |-> MayExchange],
     [ID |-> ClientA, GrantTypes |-> <<"authorization_code">>]}

\* Sessions: a *psession.PinnipedSession with the Extra claims of its ID token
\* claims (each value with its dynamic type), or a session of another type.
GoodSession ==
    [type |-> "PinnipedSession", Extra |-> [username |-> [t |-> "string", v |-> "alice"]]]
OtherTypeSession ==
    [type |-> "DefaultSession", Extra |-> [username |-> [t |-> "string", v |-> "alice"]]]
Sessions ==
    {GoodSession,
     [type |-> "PinnipedSession", Extra |-> [username |-> [t |-> "string", v |-> ""]]],
     [type |-> "PinnipedSession", Extra |-> [username |-> [t |-> "int", v |-> "7"]]],
     [type |-> "PinnipedSession", Extra |-> [groups |-> [t |-> "string", v |-> "g"]]],
     OtherTypeSession}

GrantedScopeLists ==
    {<<ScopeOpenID, ScopeRequestAudience, ScopeUsername>>,
     <<ScopeOpenID, ScopeUsername>>,
     <<ScopeRequestAudience, ScopeUsername>>,
     <<ScopeUsername>>}

\* The authorize requests the storage holds: every client and every scope list
\* with a good session and with one of another type, and every session with
\* all scopes granted.
StoredRequests ==
    [Client : [ID : ClientIDs, GrantTypes : {MayExchange}],
     GrantedScopes : GrantedScopeLists,
     Session : {GoodSession, OtherTypeSession}]
    \cup [Client : [ID : {ClientA}, GrantTypes : {MayExchange}],
          GrantedScopes : {<<ScopeOpenID, ScopeRequestAudience, ScopeUsername>>},
          Session : Sessions]

\* The access token issued for a stored request, and a token never issued.
TokenOf(stored) == <<"token", stored>>
UnknownToken ==
    <<"token", [Client |-> [ID |-> ClientA, GrantTypes |-> <<"authorization_code">>],
                GrantedScopes |-> <<ScopeOpenID>>,
                Session |-> [type |-> "DefaultSession", Extra |-> <<>>]]>>
EmptyToken == <<>>
SubjectTokens == {EmptyToken, UnknownToken} \cup {TokenOf(st) : st \in StoredRequests}

\* accessTokenStrategy.AccessTokenSignature
AccessTokenSignature(accessToken) == <<"signature", accessToken>>

TokenRequests ==
    {[GrantTypes |-> g,
      Form |-> [audience |-> a, subject_token |-> t,
                subject_token_type |-> o.subject_token_type,
                requested_token_type |-> o.requested_token_type,
                resource |-> o.resource, scope |-> o.scope,
                actor_token |-> o.actor_token, actor_token_type |-> o.actor_token_type],
      Client |-> cl] :
        g \in GrantTypeLists, a \in Audiences, t \in SubjectTokens,
        o \in OtherParams, cl \in Clients}

\* A fresh responder: no access token, no token type, no extra field (Extra is a
\* set of <<key, value>> pairs).
EmptyResponder == [AccessToken |-> <<>>, TokenType |-> "", Extra |-> {}]

\* AccessResponse.SetExtra
SetExtra(extra, key, value) == {kv \in extra : kv[1] # key} \cup {<<key, value>>}

\* A call of a collaborator, with the error it returned.
CallOf(fn, arg, err) == [fn |-> fn, arg |-> arg, err |-> err]

\* fosite.Arguments.ExactOne and fosite.Arguments.Has
ExactOne(args, name) == Len(args) = 1 /\ args[1] = name
Has(args, item) == \E i \in 1..Len(args) : args[i] = item


(***************************************************************************)
(* oidc token exchange: TokenExchangeHandler                               *)
(***************************************************************************)
\* A variant of CanHandleTokenEndpointRequest that asks whether the grant types
\* include the token exchange, not whether they are exactly it.
CanHandleIfHas(req) == Has(req.GrantTypes, GrantTypeTokenExchange)

\* TokenExchangeHandler.CanHandleTokenEndpointRequest
CanHandleTokenEndpointRequest(req) == ExactOne(req.GrantTypes, GrantTypeTokenExchange)

\* The error HandleTokenEndpointRequest returns.
HandleTokenEndpointRequestErr(req) ==
    IF ~CanHandleTokenEndpointRequest(req) THEN ErrUnknownRequest ELSE NilErr

\* A variant of ReservedAudienceErr that looks for '.pinniped.dev' at the end of
\* the audience only.
ReservedAudienceErrSuffix(requestedAudience) ==
    IF Len(requestedAudience) >= Len(DotPinnipedDev)
       /\ SubSeq(requestedAudience, Len(requestedAudience) - Len(DotPinnipedDev) + 1,
                 Len(requestedAudience)) = DotPinnipedDev
    THEN WithHint("ErrInvalidRequest", <<"requested audience cannot contain '.pinniped.dev'">>)
    ELSE IF requestedAudience = ClientIDPinnipedCLI
    THEN WithHint("ErrInvalidRequest", <<"requested audience cannot equal '%s'", ClientIDPinnipedCLI>>)
    ELSE NilErr

\* A variant of ReservedAudienceErr that looks for 'pinniped.dev', with or
\* without a dot before it.
ReservedAudienceErrAnyPrefix(requestedAudience) ==
    IF Contains(requestedAudience, Tail(DotPinnipedDev))
    THEN WithHint("ErrInvalidRequest", <<"requested audience cannot contain '.pinniped.dev'">>)
    ELSE IF requestedAudience = ClientIDPinnipedCLI
    THEN WithHint("ErrInvalidRequest", <<"requested audience cannot equal '%s'", ClientIDPinnipedCLI>>)
    ELSE NilErr

\* The audience checks of validateParams: the reserved audiences.
ReservedAudienceErr(requestedAudience) ==
    IF Contains(requestedAudience, DotPinnipedDev)
    THEN WithHint("ErrInvalidRequest", <<"requested audience cannot contain '.pinniped.dev'">>)
    ELSE IF requestedAudience = ClientIDPinnipedCLI
    THEN WithHint("ErrInvalidRequest", <<"requested audience cannot equal '%s'", ClientIDPinnipedCLI>>)
    ELSE NilErr

\* The first of the unsupported parameters that was sent, in the order of the loop.
\* A variant of UnsupportedParams without the last parameter of the loop.
UnsupportedParamsButLast == <<"resource", "scope", "actor_token">>

\* The parameters validateParams refuses when they are sent.
UnsupportedParams == <<"resource", "scope", "actor_token", "actor_token_type">>
FirstUnsupported(params) ==
    LET sent == {i \in 1..Len(UnsupportedParams) : params[UnsupportedParams[i]] # ""}
    IN IF sent = {} THEN 0 ELSE CHOOSE i \in sent : \A j \in sent : i <= j

\* TokenExchangeHandler.validateParams: the stsParams and the error.
validateParams(params) ==
    LET none == [subjectAccessToken |-> EmptyToken, requestedAudience |-> <<>>]
        fail(hint, args) ==
            [result |-> none, err |-> WithHint("ErrInvalidRequest", <<hint>> \o args)]
    IN IF params.audience = <<>> THEN fail("Missing 'audience' parameter.", <<>>)
       ELSE IF params.subject_token = EmptyToken
       THEN fail("Missing 'subject_token' parameter.", <<>>)
       ELSE IF params.subject_token_type # tokenTypeAccessToken
       THEN fail("Unsupported 'subject_token_type' parameter value, must be %q.",
                 <<tokenTypeAccessToken>>)
       ELSE IF params.requested_token_type # tokenTypeJWT
       THEN fail("Unsupported 'requested_token_type' parameter value, must be %q.",
                 <<tokenTypeJWT>>)
       ELSE IF FirstUnsupported(params) # 0
       THEN fail("Unsupported parameter %q.", <<UnsupportedParams[FirstUnsupported(params)]>>)
       ELSE IF ReservedAudienceErr(params.audience) # NilErr
       THEN [result |-> none, err |-> ReservedAudienceErr(params.audience)]
       ELSE [result |-> [subjectAccessToken |-> params.subject_token,
                         requestedAudience |-> params.audience],
             err |-> NilErr]

\* accessTokenStorage.GetAccessTokenSession
GetAccessTokenSession(storage, signature) ==
    IF signature \in DOMAIN storage
    THEN [request |-> storage[signature], err |-> NilErr]
    ELSE [request |-> NilErr, err |-> ErrNotFound]

\* A variant of validateAccessToken that reports every failure of
\* ValidateAccessToken as ErrRequestUnauthorized, as it does a failed lookup.
validateAccessTokenRewrapped(storage, accessToken, validateOutcome) ==
    LET signature == AccessTokenSignature(accessToken)
        got == GetAccessTokenSession(storage, signature)
        lookup == <<CallOf("AccessTokenSignature", accessToken, NilErr),
                    CallOf("GetAccessTokenSession", signature, got.err)>>
        unauthorized(e) == [name |-> "ErrRequestUnauthorized",
                            hint |-> <<"Invalid 'subject_token' parameter value.">>,
                            wraps |-> e]
    IN IF got.err # NilErr
       THEN [originalRequester |-> NilErr, err |-> unauthorized(got.err), calls |-> lookup]
       ELSE [originalRequester |-> IF validateOutcome # NilErr THEN NilErr ELSE got.request,
             err |-> IF validateOutcome # NilErr THEN unauthorized(validateOutcome) ELSE NilErr,
             calls |-> Append(lookup,
                              CallOf("ValidateAccessToken", accessToken, validateOutcome))]

\* TokenExchangeHandler.validateAccessToken: the original requester, the error
\* and the calls made; validateOutcome is what ValidateAccessToken returns.
validateAccessToken(storage, accessToken, validateOutcome) ==
    LET signature == AccessTokenSignature(accessToken)
        got == GetAccessTokenSession(storage, signature)
        lookup == <<CallOf("AccessTokenSignature", accessToken, NilErr),
                    CallOf("GetAccessTokenSession", signature, got.err)>>
    IN IF got.err # NilErr
       THEN [originalRequester |-> NilErr,
             err |-> [name |-> "ErrRequestUnauthorized",
                      hint |-> <<"Invalid 'subject_token' parameter value.">>,
                      wraps |-> got.err],
             calls |-> lookup]
       ELSE [originalRequester |-> IF validateOutcome # NilErr THEN NilErr ELSE got.request,
             err |-> validateOutcome,
             calls |-> Append(lookup,
                              CallOf("ValidateAccessToken", accessToken, validateOutcome))]

\* A variant of validateSession that accepts an empty username.
validateSessionAcceptsEmpty(original) ==
    IF original.Session.type # "PinnipedSession"
    THEN WithHint("ErrServerError", <<"Invalid session storage.">>)
    ELSE LET extra == original.Session.Extra
             ok == IDTokenClaimUsername \in DOMAIN extra
                   /\ extra[IDTokenClaimUsername].t = "string"
         IN IF ~ok
            THEN WithHint("ErrAccessDenied",
                          <<"No username found in session. Ensure that the %q scope was requested and granted at the authorization endpoint.",
                            ScopeUsername>>)
            ELSE NilErr

\* TokenExchangeHandler.validateSession
validateSession(original) ==
    IF original.Session.type # "PinnipedSession"
    THEN WithHint("ErrServerError", <<"Invalid session storage.">>)
    ELSE LET extra == original.Session.Extra
             ok == IDTokenClaimUsername \in DOMAIN extra
                   /\ extra[IDTokenClaimUsername].t = "string"
         IN IF ~ok \/ extra[IDTokenClaimUsername].v = ""
            THEN WithHint("ErrAccessDenied",
                          <<"No username found in session. Ensure that the %q scope was requested and granted at the authorization endpoint.",
                            ScopeUsername>>)
            ELSE NilErr

\* A variant of mintJWT that leaves the client of the original request in the
\* downscoped request.
mintJWTKeepsClient(original, audience, mintOutcome) ==
    LET downscoped == [Client |-> [ID |-> original.Client.ID], Session |-> original.Session]
    IN [call |-> CallOf("GenerateIDToken", downscoped, mintOutcome),
        token |-> IF mintOutcome = NilErr THEN <<"IDToken", downscoped>> ELSE <<>>,
        err |-> mintOutcome]

\* TokenExchangeHandler.mintJWT: the downscoped request handed to
\* GenerateIDToken, and what GenerateIDToken returns (the token or mintOutcome).
mintJWT(original, audience, mintOutcome) ==
    LET downscoped == [Client |-> [ID |-> audience], Session |-> original.Session]
    IN [call |-> CallOf("GenerateIDToken", downscoped, mintOutcome),
        token |-> IF mintOutcome = NilErr THEN <<"IDToken", downscoped>> ELSE <<>>,
        err |-> mintOutcome]

\* A variant of SameClient that compares the client with itself.
SameClientAlways(original, req) == req.Client.ID = req.Client.ID

\* The client continuity check of PopulateTokenEndpointResponse.
SameClient(original, req) == original.Client.ID = req.Client.ID

\* A variant of ClientMayExchange that asks for the authorization code grant.
ClientMayAuthorize(req) == Has(req.Client.GrantTypes, "authorization_code")

\* The grant type check of PopulateTokenEndpointResponse.
ClientMayExchange(req) == Has(req.Client.GrantTypes, GrantTypeTokenExchange)

\* A variant of ScopeErr that does not ask for the openid scope.
ScopeErrAudienceOnly(original) ==
    IF ~Has(original.GrantedScopes, ScopeRequestAudience)
    THEN WithHint("ErrAccessDenied", <<"Missing the %q scope.", ScopeRequestAudience>>)
    ELSE NilErr

\* The scope checks of PopulateTokenEndpointResponse.
ScopeErr(original) ==
    IF ~Has(original.GrantedScopes, ScopeRequestAudience)
    THEN WithHint("ErrAccessDenied", <<"Missing the %q scope.", ScopeRequestAudience>>)
    ELSE IF ~Has(original.GrantedScopes, ScopeOpenID)
    THEN WithHint("ErrAccessDenied", <<"Missing the %q scope.", ScopeOpenID>>)
    ELSE NilErr

\* The response of a successful exchange.
SetResponse(resp, responseToken) ==
    [resp EXCEPT !.AccessToken = responseToken,
                 !.TokenType = "N_A",
                 !.Extra = SetExtra(@, "issued_token_type", tokenTypeJWT)]

\* A variant of Populate that checks the scopes of the original grant before the
\* grant types of the client.
PopulateScopesFirst(req, storage, resp, validateOutcome, mintOutcome) ==
    LET out(e, calls) == [err |-> e, responder |-> resp, calls |-> calls]
        p == validateParams(req.Form)
        v == validateAccessToken(storage, p.result.subjectAccessToken, validateOutcome)
        calls1 == <<CallOf("validateParams", req.Form, p.err)>>
        calls2 == calls1 \o v.calls
        m == mintJWT(v.originalRequester, p.result.requestedAudience, mintOutcome)
        calls3 == Append(calls2, m.call)
    IN IF HandleTokenEndpointRequestErr(req) # NilErr
       THEN out(HandleTokenEndpointRequestErr(req), <<>>)
       ELSE IF p.err # NilErr THEN out(p.err, calls1)
       ELSE IF v.err # NilErr THEN out(v.err, calls2)
       ELSE IF ~SameClient(v.originalRequester, req)
       THEN out(WithHint("ErrInvalidGrant",
                         <<"The OAuth 2.0 Client ID from this request does not match the one from the authorize request.">>),
                calls2)
       ELSE IF ScopeErr(v.originalRequester) # NilErr
       THEN out(ScopeErr(v.originalRequester), calls2)
       ELSE IF ~ClientMayExchange(req)
       THEN out(WithHint("ErrUnauthorizedClient",
                         <<"The OAuth 2.0 Client is not allowed to use token exchange grant \"%s\".",
                           GrantTypeTokenExchange>>),
                calls2)
       ELSE IF validateSession(v.originalRequester) # NilErr
       THEN out(validateSession(v.originalRequester), calls2)
       ELSE IF m.err # NilErr THEN out(m.err, calls3)
       ELSE [err |-> NilErr, responder |-> SetResponse(resp, m.token), calls |-> calls3]

\* A variant of Populate that sets the token type before it mints the token.
PopulateTokenTypeFirst(req, storage, resp, validateOutcome, mintOutcome) ==
    LET out(e, calls) == [err |-> e, responder |-> resp, calls |-> calls]
        p == validateParams(req.Form)
        v == validateAccessToken(storage, p.result.subjectAccessToken, validateOutcome)
        calls1 == <<CallOf("validateParams", req.Form, p.err)>>
        calls2 == calls1 \o v.calls
        m == mintJWT(v.originalRequester, p.result.requestedAudience, mintOutcome)
        calls3 == Append(calls2, m.call)
    IN IF HandleTokenEndpointRequestErr(req) # NilErr
       THEN out(HandleTokenEndpointRequestErr(req), <<>>)
       ELSE IF p.err # NilErr THEN out(p.err, calls1)
       ELSE IF v.err # NilErr THEN out(v.err, calls2)
       ELSE IF ~SameClient(v.originalRequester, req)
       THEN out(WithHint("ErrInvalidGrant",
                         <<"The OAuth 2.0 Client ID from this request does not match the one from the authorize request.">>),
                calls2)
       ELSE IF ~ClientMayExchange(req)
       THEN out(WithHint("ErrUnauthorizedClient",
                         <<"The OAuth 2.0 Client is not allowed to use token exchange grant \"%s\".",
                           GrantTypeTokenExchange>>),
                calls2)
       ELSE IF ScopeErr(v.originalRequester) # NilErr
       THEN out(ScopeErr(v.originalRequester), calls2)
       ELSE IF validateSession(v.originalRequester) # NilErr
       THEN out(validateSession(v.originalRequester), calls2)
       ELSE IF m.err # NilErr
       THEN [err |-> m.err, responder |-> [resp EXCEPT !.TokenType = "N_A"], calls |-> calls3]
       ELSE [err |-> NilErr, responder |-> SetResponse(resp, m.token), calls |-> calls3]

\* TokenExchangeHandler.PopulateTokenEndpointResponse: the error, the responder
\* and the calls made.
Populate(req, storage, resp, validateOutcome, mintOutcome) ==
    LET out(e, calls) == [err |-> e, responder |-> resp, calls |-> calls]
        p == validateParams(req.Form)
        v == validateAccessToken(storage, p.result.subjectAccessToken, validateOutcome)
        calls1 == <<CallOf("validateParams", req.Form, p.err)>>
        calls2 == calls1 \o v.calls
        m == mintJWT(v.originalRequester, p.result.requestedAudience, mintOutcome)
        calls3 == Append(calls2, m.call)
    IN IF HandleTokenEndpointRequestErr(req) # NilErr
       THEN out(HandleTokenEndpointRequestErr(req), <<>>)
       ELSE IF p.err # NilErr THEN out(p.err, calls1)
       ELSE IF v.err # NilErr THEN out(v.err, calls2)
       ELSE IF ~SameClient(v.originalRequester, req)
       THEN out(WithHint("ErrInvalidGrant",
                         <<"The OAuth 2.0 Client ID from this request does not match the one from the authorize request.">>),
                calls2)
       ELSE IF ~ClientMayExchange(req)
       THEN out(WithHint("ErrUnauthorizedClient",
                         <<"The OAuth 2.0 Client is not allowed to use token exchange grant \"%s\".",
                           GrantTypeTokenExchange>>),
                calls2)
       ELSE IF ScopeErr(v.originalRequester) # NilErr
       THEN out(ScopeErr(v.originalRequester), calls2)
       ELSE IF validateSession(v.originalRequester) # NilErr
       THEN out(validateSession(v.originalRequester), calls2)
       ELSE IF m.err # NilErr THEN out(m.err, calls3)
       ELSE [err |-> NilErr, responder |-> SetResponse(resp, m.token), calls |-> calls3]

\* The framework calls HandleTokenEndpointRequest on the request.
HandleTokenEndpointRequest ==
    /\ stsPc = "request"
    /\ stsErr' = HandleTokenEndpointRequestErr(requester)
    /\ stsPc' = "handled"
    /\ UNCHANGED <<requester, accessTokenStorage, responder, stsCalls, ldapVars, extVars>>

\* A variant of PopulateTokenEndpointResponse that deletes the session of the
\* subject token from the storage once a token was minted for it.
PopulateTokenEndpointResponseOnce ==
    /\ stsPc \in {"request", "handled"}
    /\ \E validateOutcome \in {NilErr} \cup ValidateAccessTokenErrors,
          mintOutcome \in {NilErr} \cup GenerateIDTokenErrors :
         LET r == Populate(requester, accessTokenStorage, responder,
                           validateOutcome, mintOutcome)
             used == AccessTokenSignature(requester.Form.subject_token)
         IN /\ stsErr' = r.err
            /\ responder' = r.responder
            /\ stsCalls' = r.calls
            /\ accessTokenStorage' =
                 IF r.err = NilErr
                 THEN [sig \in DOMAIN accessTokenStorage \ {used} |-> accessTokenStorage[sig]]
                 ELSE accessTokenStorage
    /\ stsPc' = "populated"
    /\ UNCHANGED <<requester, ldapVars, extVars>>

\* The framework calls PopulateTokenEndpointResponse on the request.
PopulateTokenEndpointResponse ==
    /\ stsPc \in {"request", "handled"}
    /\ \E validateOutcome \in {NilErr} \cup ValidateAccessTokenErrors,
          mintOutcome \in {NilErr} \cup GenerateIDTokenErrors :
         LET r == Populate(requester, accessTokenStorage, responder,
                           validateOutcome, mintOutcome)
         IN /\ stsErr' = r.err
            /\ responder' = r.responder
            /\ stsCalls' = r.calls
    /\ stsPc' = "populated"
    /\ UNCHANGED <<requester, accessTokenStorage, ldapVars, extVars>>

\* The client sends the subject token of the exchange that ended in another
\* token request, for any audience.
ExchangeAgain ==
    /\ stsPc = "populated"
    /\ \E a \in Audiences : requester' = [requester EXCEPT !.Form.audience = a]
    /\ lastExchange' = [done |-> TRUE, err |-> stsErr, audience |-> requester.Form.audience]
    /\ responder' = EmptyResponder
    /\ stsPc' = "request"
    /\ stsErr' = NilErr
    /\ stsCalls' = <<>>
    /\ UNCHANGED <<accessTokenStorage, ldapVars, prev, heap, caBundle, held, rootCAs, fcfg,
                   fusername, filter, ctxDone, hostIn, hostOut, workers, store, upd>>

\* The storage: every stored request under the signature of its token.
StorageOf(stored) ==
    [sig \in {AccessTokenSignature(TokenOf(st)) : st \in stored} |-> sig[2][2]]
InitialStorage == StorageOf(StoredRequests)

\* No token request.
StsIdle ==
    /\ requester = [GrantTypes |-> <<>>]
    /\ accessTokenStorage = <<>>
    /\ responder = EmptyResponder
    /\ stsPc = "idle"
    /\ stsErr = NilErr
    /\ stsCalls = <<>>

\* A token request arrived at the token endpoint.
StsInit ==
    /\ requester \in TokenRequests
    /\ accessTokenStorage = InitialStorage
    /\ responder = EmptyResponder
    /\ stsPc = "request"
    /\ stsErr = NilErr
    /\ stsCalls = <<>>

(***************************************************************************)
(* Specifications                                                          *)
(***************************************************************************)
\* No call has returned yet.
NoPrev ==
    [op |-> "none", username |-> "", conn |-> NoConn, searchResult |-> <<>>,
     ret |-> ErrOnly(Nil)]

\* No configuration is handed out, and no filter is being built.
ConfigIdle ==
    /\ heap = <<>>
    /\ caBundle = [array |-> 0, len |-> 0]
    /\ held = [nil |-> TRUE]
    /\ rootCAs = <<>>

FilterIdle ==
    /\ fcfg = [Filter |-> <<>>, UsernameAttribute |-> <<>>]
    /\ fusername = <<>>
    /\ filter = <<>>

\* No host is being normalized, no concurrent call runs, and no APIService is
\* being updated.
HostIdle ==
    /\ hostIn = <<>>
    /\ hostOut = [pending |-> TRUE]
WorkersIdle == workers = <<>>
UpdateIdle ==
    /\ store = [nil |-> TRUE]
    /\ upd = [pc |-> "idle"]
ExchangeIdle == lastExchange = [done |-> FALSE]
RestIdle == HostIdle /\ WorkersIdle /\ UpdateIdle /\ ExchangeIdle

Init ==
    /\ LdapInit /\ StsIdle /\ prev = NoPrev /\ ConfigIdle /\ FilterIdle
    /\ ctxDone = FALSE /\ RestIdle

Next ==
    \/ Call
    \/ ValidateConfig
    \/ Dial
    \/ BindServiceAccount
    \/ Search
    \/ EndUserBind

Spec == Init /\ [][Next]_vars

\* The provider stays idle under SpecSTS.
LdapIdle ==
    /\ c = CHOOSE cfg \in ProviderConfigs : validateConfig(cfg) = Nil
    /\ pc = "idle"
    /\ op = "TestConnection"
    /\ username = ""
    /\ password = ""
    /\ conn = NoConn
    /\ deferred = <<>>
    /\ searchResult = <<>>
    /\ mappedUsername = ""
    /\ mappedUID = ""
    /\ ret = ErrOnly(Nil)

InitSTS ==
    /\ StsInit /\ LdapIdle /\ prev = NoPrev /\ ConfigIdle /\ FilterIdle
    /\ ctxDone = FALSE /\ RestIdle

NextSTS ==
    \/ HandleTokenEndpointRequest
    \/ PopulateTokenEndpointResponse

SpecSTS == InitSTS /\ [][NextSTS]_vars

\* The search filter of one request: a configuration and a username, and the
\* filter built for them.
InitFilter ==
    /\ LdapIdle /\ StsIdle /\ prev = NoPrev /\ ConfigIdle
    /\ ctxDone = FALSE /\ RestIdle
    /\ fcfg \in FilterConfigs
    /\ fusername \in FilterUsernames
    /\ filter = <<>>

NextFilter == UserSearchFilter

SpecFilter == InitFilter /\ [][NextFilter]_vars

\* A Provider, and a caller that holds the configuration it was made from or
\* one it returned.
InitConfig ==
    /\ LdapIdle /\ StsIdle /\ prev = NoPrev /\ FilterIdle /\ New
    /\ ctxDone = FALSE /\ RestIdle

NextConfig ==
    \/ GetConfig
    \/ SetHost
    \/ SetCABundle
    \/ WriteCABundleByte
    \/ DialTLS

SpecConfig == InitConfig /\ [][NextConfig]_vars

(***************************************************************************)
(* upstreamldap: concurrent calls on one Provider                          *)
(***************************************************************************)

\* The number of calls that run at the same time.
NumWorkers == 2
Workers == 1..NumWorkers

\* The configurations of the Provider the workers share: a valid one and one
\* that validateConfig rejects.
WorkerConfigs ==
    {cfg \in ProviderConfigs : cfg.UserSearch.Filter = "" /\ cfg.UserSearch.UIDAttribute = "uid"}

InsufficientAccess == [msg |-> "LDAP Result Code 50 \"Insufficient Access Rights\":", rest |-> ""]

\* The states of the directory: whether it can be dialed, what it answers to
\* the bind of the service account and to the user search, and the password
\* of the user. At most one of the three faults at a time.
Directories ==
    {d \in [reachable : BOOLEAN, serviceBind : {Nil, InvalidCredentials},
            searchErr : {Nil, NetworkError},
            entries : {<<>>, <<GoodEntry>>, <<GoodEntry, GoodEntry>>},
            userPassword : {"pw", "other"}] :
        \/ d.reachable /\ d.serviceBind = Nil /\ d.searchErr = Nil
        \/ /\ d.entries = <<GoodEntry>> /\ d.userPassword = "pw"
           /\ \/ ~d.reachable /\ d.serviceBind = Nil /\ d.searchErr = Nil
              \/ d.reachable /\ d.serviceBind # Nil /\ d.searchErr = Nil
              \/ d.reachable /\ d.serviceBind = Nil /\ d.searchErr # Nil}

\* A call that has not begun.
IdleCall ==
    [pc |-> "idle", op |-> "TestConnection", username |-> "", password |-> "", conn |-> 0,
     searchResult |-> <<>>, mappedUsername |-> "", mappedUID |-> "", ret |-> ErrOnly(Nil)]

\* The connection a dial by worker w returns.
DialedBy(w) ==
    [dialed |-> TRUE, open |-> TRUE, closes |-> 0, cmds |-> <<>>, errs |-> <<>>,
     owner |-> w, boundAs |-> "", by |-> <<>>]

\* The connection cn after worker w issued the commands that by does not yet cover.
IssuedBy(cn, w) ==
    [cn EXCEPT !.by = @ \o [i \in 1..(Len(cn.cmds) - Len(@)) |-> w]]

\* What the directory answers to a Bind on connection cn.
DirectoryBind(dir, cfg, cn, dn, pw) ==
    IF ~cn.open THEN NetworkError
    ELSE IF dn = cfg.BindUsername
    THEN (IF pw = cfg.BindPassword THEN dir.serviceBind ELSE InvalidCredentials)
    ELSE IF pw = dir.userPassword THEN Nil ELSE InvalidCredentials

\* What the directory answers to the user search on connection cn: only a
\* connection bound as the service account may search.
DirectorySearch(dir, cfg, cn) ==
    IF ~cn.open THEN [entries |-> <<>>, err |-> NetworkError]
    ELSE IF cn.boundAs # cfg.BindUsername THEN [entries |-> <<>>, err |-> InsufficientAccess]
    ELSE IF dir.searchErr # Nil THEN [entries |-> <<>>, err |-> dir.searchErr]
    ELSE [entries |-> dir.entries, err |-> Nil]

\* The return of worker w's call with value r: the deferred conn.Close() runs
\* on the connection the call holds.
WorkerReturn(w, call, conns, r) ==
    /\ workers' = [workers EXCEPT
                      !.calls[w] = [call EXCEPT !.pc = "returned", !.ret = r],
                      !.conns = IF call.conn = 0 THEN conns
                                ELSE [conns EXCEPT ![call.conn] = IssuedBy(Close(@), w)]]

WorkerUnchanged ==
    UNCHANGED <<ldapVars, stsVars, prev, heap, caBundle, held, rootCAs, fcfg, fusername,
                filter, ctxDone, hostIn, hostOut, store, upd, lastExchange>>

\* Worker w is handed one of the three methods; p.validateConfig() and, in
\* authenticateUserImpl, the empty-username check.
WorkerCall(w) ==
    /\ workers.calls[w].pc = "idle"
    /\ \E o \in Ops, u \in Usernames, p \in Passwords :
         LET call == [IdleCall EXCEPT !.op = o,
                                      !.username = (IF o = "TestConnection" THEN "" ELSE u),
                                      !.password = (IF o = "AuthenticateUser" THEN p ELSE ""),
                                      !.pc = "dial"]
             err == validateConfig(c)
         IN IF err # Nil THEN WorkerReturn(w, call, workers.conns, ErrOnly(err))
            ELSE IF o # "TestConnection" /\ call.username = ""
            THEN WorkerReturn(w, call, workers.conns,
                              [response |-> NilResponse, authenticated |-> FALSE, err |-> Nil])
            ELSE workers' = [workers EXCEPT !.calls[w] = call]
    /\ WorkerUnchanged

\* A variant of WorkerDial for a Provider that keeps the first connection it
\* dialed and hands it to every later call.
WorkerDialShared(w) ==
    /\ workers.calls[w].pc = "dial"
    /\ LET call == workers.calls[w]
       IN IF ~workers.dir.reachable
          THEN WorkerReturn(w, call, workers.conns,
                            ErrOnly(Errorf("error dialing host \"%s\": %w", <<c.Host>>, NetworkError)))
          ELSE IF workers.conns # <<>>
          THEN workers' = [workers EXCEPT !.calls[w] = [call EXCEPT !.pc = "bind", !.conn = 1]]
          ELSE workers' = [workers EXCEPT
                              !.conns = Append(@, DialedBy(w)),
                              !.calls[w] = [call EXCEPT !.pc = "bind",
                                                        !.conn = Len(workers.conns) + 1]]
    /\ WorkerUnchanged

\* conn, err := p.dial(ctx); defer conn.Close(): every call dials a connection
\* of its own.
WorkerDial(w) ==
    /\ workers.calls[w].pc = "dial"
    /\ LET call == workers.calls[w]
       IN IF ~workers.dir.reachable
          THEN WorkerReturn(w, call, workers.conns,
                            ErrOnly(Errorf("error dialing host \"%s\": %w", <<c.Host>>, NetworkError)))
          ELSE workers' = [workers EXCEPT
                              !.conns = Append(@, DialedBy(w)),
                              !.calls[w] = [call EXCEPT !.pc = "bind",
                                                        !.conn = Len(workers.conns) + 1]]
    /\ WorkerUnchanged

\* conn.Bind(p.c.BindUsername, p.c.BindPassword) on the call's connection.
WorkerBindServiceAccount(w) ==
    /\ workers.calls[w].pc = "bind"
    /\ LET call == workers.calls[w]
           cn == workers.conns[call.conn]
           outcome == DirectoryBind(workers.dir, c, cn, c.BindUsername, c.BindPassword)
           bound == IssuedBy([cn EXCEPT !.cmds = Append(@, BindCmd(c.BindUsername, c.BindPassword)),
                                        !.errs = Append(@, outcome),
                                        !.boundAs = IF outcome = Nil THEN c.BindUsername ELSE ""],
                             w)
           conns == [workers.conns EXCEPT ![call.conn] = bound]
       IN IF outcome # Nil
          THEN WorkerReturn(w, call, conns,
                            ErrOnly(Errorf(IF call.op = "TestConnection"
                                           THEN "error binding as \"%s\": %w"
                                           ELSE "error binding as \"%s\" before user search: %w",
                                           <<c.BindUsername>>, outcome)))
          ELSE IF call.op = "TestConnection"
          THEN WorkerReturn(w, call, conns, ErrOnly(Nil))
          ELSE workers' = [workers EXCEPT !.conns = conns,
                                          !.calls[w] = [call EXCEPT !.pc = "search"]]
    /\ WorkerUnchanged

\* searchAndBindUser: conn.Search(p.userSearchRequest(username)) on the call's
\* connection, and the checks of the result up to the end-user bind.
WorkerSearch(w) ==
    /\ workers.calls[w].pc = "search"
    /\ LET call == workers.calls[w]
           cn == workers.conns[call.conn]
           answer == DirectorySearch(workers.dir, c, cn)
           searched == IssuedBy([cn EXCEPT !.cmds = Append(@, SearchCmd(userSearchRequest(c, call.username))),
                                           !.errs = Append(@, answer.err)],
                                w)
           conns == [workers.conns EXCEPT ![call.conn] = searched]
           r == searchAndBindUserEntries(c, answer.entries, call.username)
       IN IF answer.err # Nil
          THEN WorkerReturn(w, call, conns,
                            authenticateUserImplResult(
                                [mappedUsername |-> "", mappedUID |-> "",
                                 err |-> Errorf("error searching for user \"%s\": %w",
                                                <<call.username>>, answer.err)]))
          ELSE IF r.proceed
          THEN workers' = [workers EXCEPT
                              !.conns = conns,
                              !.calls[w] = [call EXCEPT !.pc = "endUserBind",
                                                        !.searchResult = answer.entries,
                                                        !.mappedUsername = r.mappedUsername,
                                                        !.mappedUID = r.mappedUID]]
          ELSE WorkerReturn(w, [call EXCEPT !.searchResult = answer.entries], conns,
                            authenticateUserImplResult(r))
    /\ WorkerUnchanged

\* searchAndBindUser: bindFunc(conn, userEntry.DN) on the call's connection,
\* and the return of authenticateUserImpl.
WorkerEndUserBind(w) ==
    /\ workers.calls[w].pc = "endUserBind"
    /\ LET call == workers.calls[w]
           cn == workers.conns[call.conn]
           dn == call.searchResult[1].DN
           outcome == DirectoryBind(workers.dir, c, cn, dn, call.password)
           b == endUserBindFunc(call.op, cn, dn, call.password, outcome)
           bound == IssuedBy([b.conn EXCEPT !.boundAs =
                                  IF Len(b.conn.cmds) = Len(cn.cmds) THEN @
                                  ELSE IF outcome = Nil THEN dn ELSE ""],
                             w)
           r == searchAndBindUserResult(call.mappedUsername, call.mappedUID, b.err,
                                        call.username, dn)
       IN WorkerReturn(w, call, [workers.conns EXCEPT ![call.conn] = bound],
                       authenticateUserImplResult(r))
    /\ WorkerUnchanged

\* The result of method o with username u and password p on a Provider of
\* configuration cfg when no other call runs, the directory being dir.
authenticateUserImplAlone(cfg, dir, o, u, p) ==
    LET username0 == IF o = "TestConnection" THEN "" ELSE u
        password0 == IF o = "AuthenticateUser" THEN p ELSE ""
        r == searchAndBindUserEntries(cfg, dir.entries, username0)
        dn == dir.entries[1].DN
        bindErr == IF o = "AuthenticateUser" /\ password0 # dir.userPassword
                   THEN InvalidCredentials ELSE Nil
    IN IF validateConfig(cfg) # Nil THEN ErrOnly(validateConfig(cfg))
       ELSE IF o # "TestConnection" /\ username0 = ""
       THEN [response |-> NilResponse, authenticated |-> FALSE, err |-> Nil]
       ELSE IF ~dir.reachable
       THEN ErrOnly(Errorf("error dialing host \"%s\": %w", <<cfg.Host>>, NetworkError))
       ELSE IF dir.serviceBind # Nil
       THEN ErrOnly(Errorf(IF o = "TestConnection"
                           THEN "error binding as \"%s\": %w"
                           ELSE "error binding as \"%s\" before user search: %w",
                           <<cfg.BindUsername>>, dir.serviceBind))
       ELSE IF o = "TestConnection" THEN ErrOnly(Nil)
       ELSE IF dir.searchErr # Nil
       THEN authenticateUserImplResult(
                [mappedUsername |-> "", mappedUID |-> "",
                 err |-> Errorf("error searching for user \"%s\": %w", <<username0>>, dir.searchErr)])
       ELSE IF ~r.proceed THEN authenticateUserImplResult(r)
       ELSE authenticateUserImplResult(
                searchAndBindUserResult(r.mappedUsername, r.mappedUID, bindErr, username0, dn))

InitWorkers ==
    /\ LdapInit /\ c \in WorkerConfigs /\ StsIdle /\ prev = NoPrev /\ ConfigIdle /\ FilterIdle
    /\ ctxDone = FALSE /\ HostIdle /\ UpdateIdle /\ ExchangeIdle
    /\ \E dir \in Directories :
         workers = [config |-> c, dir |-> dir, conns |-> <<>>,
                    calls |-> [w \in Workers |-> IdleCall]]

NextWorkers ==
    \/ \E w \in Workers : WorkerCall(w)
    \/ \E w \in Workers : WorkerDial(w)
    \/ \E w \in Workers : WorkerBindServiceAccount(w)
    \/ \E w \in Workers : WorkerSearch(w)
    \/ \E w \in Workers : WorkerEndUserBind(w)

SpecWorkers == InitWorkers /\ [][NextWorkers]_vars

(***************************************************************************)
(* UpdateAPIService: the CA bundle of the stored APIService                *)
(***************************************************************************)

\* The number of writes to the stored APIService by anyone.
MaxWrites == 2

GroupPriorityMinimums == {111, 222, 999}
CABundles == {"nil", "some-ca-bundle", "some-other-different-ca-bundle"}

NoError == <<>>
ErrorOnGet == <<"error on get">>
ErrorOnUpdate == <<"error on update">>
ConflictError == <<"there was a conflict">>

\* fmt.Errorf("prefix: %w", err), as the chain of its messages.
Wrapped(prefix, err) == <<prefix>> \o err

\* The APIService objects the tracker of the API server may hold at first.
StoredAPIServices ==
    [nil : {FALSE}, resourceVersion : {1}, GroupPriorityMinimum : {111, 999},
     CABundle : {"nil", "some-other-different-ca-bundle"}]

\* UpdateAPIService(ctx, client, caInput) is called.
UpdateAPIService ==
    /\ upd.pc = "idle"
    /\ \E ca \in {"some-ca-bundle", "some-other-different-ca-bundle"} :
         upd' = [pc |-> "get", caInput |-> ca, fetched |-> [nil |-> TRUE], err |-> NoError,
                 calls |-> <<>>, before |-> [nil |-> TRUE], written |-> [nil |-> TRUE]]
    /\ UNCHANGED <<store, ldapVars, stsVars, prev, heap, caBundle, held, rootCAs, fcfg,
                   fusername, filter, ctxDone, hostIn, hostOut, workers, lastExchange>>

\* Get of the APIService: the stored object, or an error of the API server.
APIServicesGet ==
    /\ upd.pc = "get"
    /\ \E failed \in BOOLEAN :
         upd' = IF failed
                THEN [upd EXCEPT !.pc = "done",
                                 !.calls = Append(@, [fn |-> "Get", err |-> ErrorOnGet]),
                                 !.err = Wrapped("could not update API service",
                                            Wrapped("could not get existing version of API service",
                                                    ErrorOnGet))]
                ELSE [upd EXCEPT !.pc = "update",
                                 !.calls = Append(@, [fn |-> "Get", err |-> NoError]),
                                 !.fetched = store]
    /\ UNCHANGED <<store, ldapVars, stsVars, prev, heap, caBundle, held, rootCAs, fcfg,
                   fusername, filter, ctxDone, hostIn, hostOut, workers, lastExchange>>

\* A variant of APIServicesUpdate that, after a conflict, sends the object it
\* holds again under the stored version, without a fresh Get.
APIServicesUpdateStale ==
    /\ upd.pc = "update"
    /\ LET obj == [upd.fetched EXCEPT !.CABundle = upd.caInput]
       IN \E failed \in BOOLEAN :
            IF failed
            THEN /\ upd' = [upd EXCEPT !.pc = "done",
                                       !.calls = Append(@, [fn |-> "Update", err |-> ErrorOnUpdate]),
                                       !.err = Wrapped("could not update API service", ErrorOnUpdate)]
                 /\ UNCHANGED store
            ELSE IF obj.resourceVersion # store.resourceVersion
            THEN /\ upd' = [upd EXCEPT !.calls = Append(@, [fn |-> "Update", err |-> ConflictError]),
                                       !.fetched.resourceVersion = store.resourceVersion]
                 /\ UNCHANGED store
            ELSE /\ store' = [obj EXCEPT !.resourceVersion = @ + 1]
                 /\ upd' = [upd EXCEPT !.pc = "done",
                                       !.calls = Append(@, [fn |-> "Update", err |-> NoError]),
                                       !.before = store,
                                       !.written = [obj EXCEPT !.resourceVersion = @ + 1]]
    /\ UNCHANGED <<ldapVars, stsVars, prev, heap, caBundle, held, rootCAs, fcfg,
                   fusername, filter, ctxDone, hostIn, hostOut, workers, lastExchange>>

\* Update of the fetched object with the new CA bundle: an error of the API
\* server, a conflict when the stored object changed since the Get (then a
\* fresh Get follows), or the write.
APIServicesUpdate ==
    /\ upd.pc = "update"
    /\ LET obj == [upd.fetched EXCEPT !.CABundle = upd.caInput]
       IN \E failed \in BOOLEAN :
            IF failed
            THEN /\ upd' = [upd EXCEPT !.pc = "done",
                                       !.calls = Append(@, [fn |-> "Update", err |-> ErrorOnUpdate]),
                                       !.err = Wrapped("could not update API service", ErrorOnUpdate)]
                 /\ UNCHANGED store
            ELSE IF obj.resourceVersion # store.resourceVersion
            THEN /\ upd' = [upd EXCEPT !.pc = "get",
                                       !.calls = Append(@, [fn |-> "Update", err |-> ConflictError])]
                 /\ UNCHANGED store
            ELSE /\ store' = [obj EXCEPT !.resourceVersion = @ + 1]
                 /\ upd' = [upd EXCEPT !.pc = "done",
                                       !.calls = Append(@, [fn |-> "Update", err |-> NoError]),
                                       !.before = store,
                                       !.written = [obj EXCEPT !.resourceVersion = @ + 1]]
    /\ UNCHANGED <<ldapVars, stsVars, prev, heap, caBundle, held, rootCAs, fcfg,
                   fusername, filter, ctxDone, hostIn, hostOut, workers, lastExchange>>

\* Someone else changes the stored APIService while the call runs.
TrackerUpdate ==
    /\ upd.pc \in {"get", "update"}
    /\ store.resourceVersion <= MaxWrites
    /\ \E p \in GroupPriorityMinimums \ {store.GroupPriorityMinimum} :
         store' = [store EXCEPT !.GroupPriorityMinimum = p, !.resourceVersion = @ + 1]
    /\ UNCHANGED <<upd, ldapVars, stsVars, prev, heap, caBundle, held, rootCAs, fcfg,
                   fusername, filter, ctxDone, hostIn, hostOut, workers, lastExchange>>

InitUpdate ==
    /\ LdapIdle /\ StsIdle /\ prev = NoPrev /\ ConfigIdle /\ FilterIdle
    /\ ctxDone = FALSE /\ HostIdle /\ WorkersIdle /\ ExchangeIdle
    /\ store \in StoredAPIServices
    /\ upd = [pc |-> "idle"]

NextUpdate ==
    \/ UpdateAPIService
    \/ APIServicesGet
    \/ APIServicesUpdate
    \/ TrackerUpdate

SpecUpdate == InitUpdate /\ [][NextUpdate]_vars

\* Token requests of the token exchange grant with supported parameters, each
\* followed by further requests with the same subject token.
InitSTSAgain ==
    /\ InitSTS
    /\ requester.GrantTypes = <<GrantTypeTokenExchange>>
    /\ FirstUnsupported(requester.Form) = 0
    /\ requester.Form.subject_token_type = tokenTypeAccessToken
    /\ requester.Form.requested_token_type = tokenTypeJWT

NextSTSAgain ==
    \/ HandleTokenEndpointRequest
    \/ PopulateTokenEndpointResponse
    \/ ExchangeAgain

SpecSTSAgain == InitSTSAgain /\ [][NextSTSAgain]_vars

\* The dial of one Provider: the host of its configuration, and what dial does
\* with it.
InitHost ==
    /\ LdapIdle /\ StsIdle /\ prev = NoPrev /\ ConfigIdle /\ FilterIdle
    /\ ctxDone = FALSE /\ WorkersIdle /\ UpdateIdle /\ ExchangeIdle
    /\ hostIn \in Hosts
    /\ hostOut = [pending |-> TRUE]

NextHost == DialHost

SpecHost == InitHost /\ [][NextHost]_vars

\* The provider called by a caller that may cancel the context of a call.
NextCancel ==
    \/ Call
    \/ Cancel
    \/ ValidateConfig
    \/ Dial
    \/ BindServiceAccount
    \/ Search
    \/ EndUserBind

SpecCancel == Init /\ [][NextCancel]_vars

\* The provider called again and again, each call remembering the one before.
NextPair ==
    \/ CallAfter
    \/ ValidateConfig
    \/ Dial
    \/ BindServiceAccount
    \/ Search
    \/ EndUserBind

SpecPair == Init /\ [][NextPair]_vars


(***************************************************************************)
(* Claims about the LDAP provider (Spec)                                   *)
(***************************************************************************)
\* C1: within one AuthenticateUser call the commands on the connection are, in
\* this order, the service-account Bind, the Search, and at most one end-user
\* Bind (as the DN found, with the given password); nothing but Close follows
\* the end-user Bind, whatever its outcome.
C1_CommandOrder ==
    op = "AuthenticateUser" =>
        LET cs == conn.cmds
        IN \A i \in 1..Len(cs) :
             /\ cs[i].cmd = "Bind" =>
                  \/ i = 1 /\ cs[i] = BindCmd(c.BindUsername, c.BindPassword)
                  \/ /\ i = 3
                     /\ cs[1].cmd = "Bind" /\ cs[2].cmd = "Search"
                     /\ Len(searchResult) = 1
                     /\ cs[i] = BindCmd(searchResult[1].DN, password)
             /\ cs[i].cmd = "Search" => i = 2 /\ cs[1].cmd = "Bind"
             /\ i > 3 => cs[i].cmd = "Close"

\* An AuthenticateUser call returned an error after a failed end-user bind.
C1_Witness ==
    /\ op = "AuthenticateUser" /\ pc = "returned"
    /\ Len(conn.cmds) = 4 /\ conn.cmds[3].cmd = "Bind" /\ conn.cmds[4].cmd = "Close"
    /\ ret.err # Nil

\* C2: when the dial succeeded, the connection is closed exactly once by the
\* time the method returns, on every exit path, and never before; no method
\* returns with an open connection.
C2_ClosedOnce ==
    /\ pc = "returned" => ~conn.open /\ (conn.dialed => conn.closes = 1)
    /\ pc \notin {"returned", "idle"} => conn.closes = 0 /\ (conn.dialed => conn.open)
    /\ conn.closes > 0 => conn.cmds[Len(conn.cmds)].cmd = "Close"

\* A call returned an attribute error after a search, its connection closed.
C2_Witness ==
    /\ pc = "returned" /\ conn.dialed /\ conn.closes = 1
    /\ Len(searchResult) = 1 /\ ret.err # Nil /\ Len(conn.cmds) = 3


(***************************************************************************)
(* Claims about the token exchange (SpecSTS)                               *)
(***************************************************************************)
\* The calls of collaborator fn that PopulateTokenEndpointResponse made.
CallsOf(fn) == {i \in 1..Len(stsCalls) : stsCalls[i].fn = fn}
\* GenerateIDToken was called: a token was asked for.
Minted == CallsOf("GenerateIDToken") # {}
\* The storage lookup failed; the validation of the access token failed.
LookupFailed == \E i \in CallsOf("GetAccessTokenSession") : stsCalls[i].err # NilErr
ValidationFailed == \E i \in CallsOf("ValidateAccessToken") : stsCalls[i].err # NilErr
\* The subject token was resolved to the original request.
Resolved == \E i \in CallsOf("ValidateAccessToken") : stsCalls[i].err = NilErr
\* The authorize request the storage holds for the subject token.
Original == accessTokenStorage[AccessTokenSignature(requester.Form.subject_token)]
Populated == stsPc = "populated"
\* The username claim of the original session is a non-empty string.
HasUsername(session) ==
    /\ "username" \in DOMAIN session.Extra
    /\ session.Extra["username"].t = "string"
    /\ session.Extra["username"].v # ""

\* C3: after a successful exchange, GenerateIDToken was called for a request
\* whose client ID is the audience form value, the responder's access token
\* is the token it returned, token_type is "N_A" and issued_token_type is the
\* JWT token type.
C3_MintedForAudience ==
    (Populated /\ stsErr = NilErr) =>
        /\ Cardinality(CallsOf("GenerateIDToken")) = 1
        /\ LET call == stsCalls[Len(stsCalls)]
           IN /\ call.fn = "GenerateIDToken"
              /\ call.arg.Client.ID = requester.Form.audience
              /\ call.arg.Session = Original.Session
              /\ responder.AccessToken = <<"IDToken", call.arg>>
        /\ responder.TokenType = "N_A"
        /\ responder.Extra = {<<"issued_token_type", "urn:ietf:params:oauth:token-type:jwt">>}

\* An exchange for audience cluster-a succeeded.
C3_Witness ==
    /\ Populated /\ stsErr = NilErr
    /\ requester.Form.audience = <<"c", "l", "u", "s", "t", "e", "r", "-", "a">>
    /\ responder.TokenType = "N_A"

\* C4 as stated: a failed storage lookup and a failed validation of the access
\* token both end the exchange with ErrRequestUnauthorized, nothing minted.
C4_Original ==
    (Populated /\ (LookupFailed \/ ValidationFailed)) =>
        stsErr.name = "ErrRequestUnauthorized" /\ ~Minted

\* C4, amended: a failed storage lookup ends the exchange with
\* ErrRequestUnauthorized wrapping the storage's error; a failed validation
\* ends it with the error ValidateAccessToken returned, as it is; in both
\* cases nothing is minted and the responder is left as it was.
C4_Amended ==
    Populated =>
        /\ LookupFailed =>
             /\ stsErr.name = "ErrRequestUnauthorized"
             /\ stsErr.wraps = stsCalls[Len(stsCalls)].err
             /\ ~ValidationFailed
        /\ ValidationFailed => stsErr = stsCalls[Len(stsCalls)].err
        /\ (LookupFailed \/ ValidationFailed) => ~Minted /\ responder = EmptyResponder

\* The validation of a stored token failed with ErrTokenExpired.
C4_Witness ==
    /\ Populated /\ ValidationFailed /\ stsErr.name = "ErrTokenExpired"
    /\ requester.Form.subject_token \in {TokenOf(st) : st \in StoredRequests}

\* C5: when the subject token resolves to an original request of another
\* client than the current one, the exchange fails with ErrInvalidGrant and
\* nothing is minted; a token is minted only for the same client.
C5_ClientContinuity ==
    Populated =>
        /\ (Resolved /\ Original.Client.ID # requester.Client.ID) =>
               stsErr.name = "ErrInvalidGrant" /\ ~Minted /\ responder = EmptyResponder
        /\ Minted => Original.Client.ID = requester.Client.ID

\* The token of client-b was presented by client-a.
C5_Witness ==
    /\ Populated /\ Resolved
    /\ Original.Client.ID = ClientB /\ requester.Client.ID = ClientA
    /\ stsErr.name = "ErrInvalidGrant"

\* The exchange reached the scope checks: the token resolved, the clients are
\* the same and the client may use the token exchange grant.
ReachedScopes ==
    /\ Resolved
    /\ Original.Client.ID = requester.Client.ID
    /\ \E i \in 1..Len(requester.Client.GrantTypes) :
         requester.Client.GrantTypes[i] = GrantTypeTokenExchange
Granted(scope) ==
    \E i \in 1..Len(Original.GrantedScopes) : Original.GrantedScopes[i] = scope

\* C6: a token is minted only if the original grant has the request-audience
\* scope and the openid scope; a missing one fails the exchange with
\* ErrAccessDenied and a hint naming it, the request-audience scope when both
\* are missing.
C6_ScopeGating ==
    Populated =>
        /\ Minted => Granted("pinniped:request-audience") /\ Granted("openid")
        /\ (ReachedScopes /\ ~Granted("pinniped:request-audience")) =>
               /\ stsErr = WithHint("ErrAccessDenied",
                                    <<"Missing the %q scope.", "pinniped:request-audience">>)
               /\ ~Minted
        /\ (ReachedScopes /\ Granted("pinniped:request-audience") /\ ~Granted("openid")) =>
               /\ stsErr = WithHint("ErrAccessDenied", <<"Missing the %q scope.", "openid">>)
               /\ ~Minted

\* Only the openid scope was missing.
C6_Witness ==
    /\ Populated /\ ReachedScopes
    /\ Granted("pinniped:request-audience") /\ ~Granted("openid")
    /\ stsErr.name = "ErrAccessDenied"

\* The request passes the gate and every check of validateParams before the
\* audience reservation.
OtherParamsValid ==
    /\ requester.GrantTypes = <<GrantTypeTokenExchange>>
    /\ requester.Form.subject_token # EmptyToken
    /\ requester.Form.subject_token_type = tokenTypeAccessToken
    /\ requester.Form.requested_token_type = tokenTypeJWT
    /\ \A i \in 1..Len(UnsupportedParams) : requester.Form[UnsupportedParams[i]] = ""
\* validateParams accepted the request: the handler went on to the storage.
ParamsAccepted ==
    /\ Len(stsCalls) >= 2
    /\ stsCalls[1] = CallOf("validateParams", requester.Form, NilErr)
    /\ stsCalls[2] = CallOf("AccessTokenSignature", requester.Form.subject_token, NilErr)
\* The audiences that differ from a reserved one in case or by a blank, or lack
\* the leading dot.
NearlyReserved ==
    {ClientIDPinnipedCLI \o <<" ">>,
     <<"P">> \o Tail(ClientIDPinnipedCLI),
     <<".", "P", "I", "N", "N", "I", "P", "E", "D", ".", "D", "E", "V">>,
     Tail(DotPinnipedDev)}

\* C7: with the other parameters valid, an audience that contains
\* '.pinniped.dev' or is 'pinniped-cli' is refused with ErrInvalidRequest, and
\* every other non-empty audience is accepted, one that differs from a
\* reserved one only in case or by a blank included.
C7_AudienceReservation ==
    (Populated /\ OtherParamsValid /\ requester.Form.audience # <<>>) =>
        LET a == requester.Form.audience
            reserved == Contains(a, DotPinnipedDev) \/ a = ClientIDPinnipedCLI
        IN /\ reserved => stsErr.name = "ErrInvalidRequest" /\ Len(stsCalls) = 1
           /\ ~reserved => ParamsAccepted /\ stsErr.name # "ErrInvalidRequest"
           /\ a \in NearlyReserved => ParamsAccepted

\* An audience with '.pinniped.dev' inside it was refused.
C7_Witness ==
    /\ Populated /\ OtherParamsValid
    /\ requester.Form.audience = <<"f", "o", "o">> \o DotPinnipedDev \o <<"/", "x">>
    /\ stsErr.name = "ErrInvalidRequest"

\* The exchange reached the session check.
ReachedSession ==
    ReachedScopes /\ Granted("pinniped:request-audience") /\ Granted("openid")

\* C8: a session of another type than PinnipedSession fails the exchange with
\* ErrServerError "Invalid session storage."; a PinnipedSession whose username
\* claim is absent, no string or empty fails it with ErrAccessDenied; a token
\* is minted only for a non-empty string username.
C8_SessionIntegrity ==
    Populated =>
        /\ (ReachedSession /\ Original.Session.type # "PinnipedSession") =>
               /\ stsErr = WithHint("ErrServerError", <<"Invalid session storage.">>)
               /\ ~Minted
        /\ (ReachedSession /\ Original.Session.type = "PinnipedSession"
              /\ ~HasUsername(Original.Session)) =>
               stsErr.name = "ErrAccessDenied" /\ ~Minted
        /\ Minted => Original.Session.type = "PinnipedSession" /\ HasUsername(Original.Session)

\* The username claim of the session was the empty string.
C8_Witness ==
    /\ Populated /\ ReachedSession
    /\ Original.Session.type = "PinnipedSession"
    /\ "username" \in DOMAIN Original.Session.Extra
    /\ Original.Session.Extra["username"] = [t |-> "string", v |-> ""]
    /\ stsErr.name = "ErrAccessDenied"

\* C9: a client whose grant types lack the token exchange is refused with
\* ErrUnauthorizedClient and nothing is minted, also with a valid subject
\* token, the same client ID and all scopes.
C9_GrantTypePermission ==
    (Populated /\ Resolved /\ Original.Client.ID = requester.Client.ID
       /\ \A i \in 1..Len(requester.Client.GrantTypes) :
            requester.Client.GrantTypes[i] # GrantTypeTokenExchange) =>
        /\ stsErr.name = "ErrUnauthorizedClient"
        /\ ~Minted
        /\ responder = EmptyResponder

\* A client without the grant presented a token that passes every other check.
C9_Witness ==
    /\ Populated /\ Resolved /\ Original.Client.ID = requester.Client.ID
    /\ requester.Client.GrantTypes = <<"authorization_code">>
    /\ Granted("pinniped:request-audience") /\ Granted("openid")
    /\ Original.Session = GoodSession
    /\ stsErr.name = "ErrUnauthorizedClient"

\* C10: for a request whose grant types are not exactly the token exchange,
\* HandleTokenEndpointRequest and PopulateTokenEndpointResponse return
\* ErrUnknownRequest, and no parameter is validated, nothing is looked up and
\* nothing is minted.
C10_Gating ==
    (stsPc \in {"handled", "populated"}
       /\ requester.GrantTypes # <<"urn:ietf:params:oauth:grant-type:token-exchange">>) =>
        /\ stsErr = ErrUnknownRequest
        /\ stsCalls = <<>>
        /\ responder = EmptyResponder

\* A request for the token exchange and another grant type was not handled.
C10_Witness ==
    /\ Populated
    /\ requester.GrantTypes = <<GrantTypeTokenExchange, "authorization_code">>
    /\ stsErr = ErrUnknownRequest

\* C11: for a token exchange request, validateParams fails with
\* ErrInvalidRequest, and the handler stops there, when the audience is empty,
\* the subject_token is empty, the subject_token_type is not the access token
\* type, the requested_token_type is not the JWT type, or one of resource,
\* scope, actor_token, actor_token_type is sent; it succeeds only when none of
\* these holds and the audience is not reserved, and then the subject token and
\* the audience go on unchanged (to the storage lookup and to the minting).
C11_ParamValidation ==
    (Populated /\ requester.GrantTypes = <<GrantTypeTokenExchange>>) =>
        LET f == requester.Form
            defect ==
                \/ f.audience = <<>>
                \/ f.subject_token = <<>>
                \/ f.subject_token_type # "urn:ietf:params:oauth:token-type:access_token"
                \/ f.requested_token_type # "urn:ietf:params:oauth:token-type:jwt"
                \/ f.resource # "" \/ f.scope # ""
                \/ f.actor_token # "" \/ f.actor_token_type # ""
            reserved == Contains(f.audience, DotPinnipedDev) \/ f.audience = ClientIDPinnipedCLI
        IN /\ Len(stsCalls) >= 1 /\ stsCalls[1].fn = "validateParams" /\ stsCalls[1].arg = f
           /\ defect =>
                 /\ stsErr.name = "ErrInvalidRequest"
                 /\ stsCalls = <<CallOf("validateParams", f, stsErr)>>
                 /\ responder = EmptyResponder
           /\ stsCalls[1].err = NilErr <=> (~defect /\ ~reserved)
           /\ stsCalls[1].err = NilErr =>
                 /\ stsCalls[2] = CallOf("AccessTokenSignature", f.subject_token, NilErr)
                 /\ \A i \in CallsOf("GenerateIDToken") : stsCalls[i].arg.Client.ID = f.audience
           /\ validateParams(f).err = NilErr =>
                 validateParams(f).result =
                     [subjectAccessToken |-> f.subject_token, requestedAudience |-> f.audience]

\* A request that sent only an actor_token_type beyond the valid parameters was
\* refused by validateParams.
C11_Witness ==
    /\ Populated /\ requester.GrantTypes = <<GrantTypeTokenExchange>>
    /\ requester.Form.audience = <<"c", "l", "u", "s", "t", "e", "r", "-", "a">>
    /\ requester.Form.subject_token \in {TokenOf(st) : st \in StoredRequests}
    /\ requester.Form.subject_token_type = tokenTypeAccessToken
    /\ requester.Form.requested_token_type = tokenTypeJWT
    /\ requester.Form.actor_token_type # "" /\ requester.Form.actor_token = ""
    /\ stsErr = WithHint("ErrInvalidRequest", <<"Unsupported parameter %q.", "actor_token_type">>)

\* The first check of PopulateTokenEndpointResponse, in the order gate,
\* parameters, token, client, grant, audience scope, openid scope, session,
\* mint, that fails for the request; "none" when all pass. Whether the
\* validation of a stored token and the minting fail is what the strategies
\* answered when called.
FirstFailing ==
    LET f == requester.Form
        stored == AccessTokenSignature(f.subject_token) \in DOMAIN accessTokenStorage
    IN IF requester.GrantTypes # <<GrantTypeTokenExchange>> THEN "gate"
       ELSE IF \/ f.audience = <<>> \/ f.subject_token = <<>>
               \/ f.subject_token_type # tokenTypeAccessToken
               \/ f.requested_token_type # tokenTypeJWT
               \/ f.resource # "" \/ f.scope # ""
               \/ f.actor_token # "" \/ f.actor_token_type # ""
               \/ Contains(f.audience, DotPinnipedDev) \/ f.audience = ClientIDPinnipedCLI
       THEN "params"
       ELSE IF ~stored \/ ValidationFailed THEN "token"
       ELSE IF Original.Client.ID # requester.Client.ID THEN "client"
       ELSE IF \A i \in 1..Len(requester.Client.GrantTypes) :
                 requester.Client.GrantTypes[i] # GrantTypeTokenExchange
       THEN "grant"
       ELSE IF ~Granted("pinniped:request-audience") THEN "audience scope"
       ELSE IF ~Granted("openid") THEN "openid scope"
       ELSE IF Original.Session.type # "PinnipedSession" \/ ~HasUsername(Original.Session)
       THEN "session"
       ELSE IF \E i \in CallsOf("GenerateIDToken") : stsCalls[i].err # NilErr THEN "mint"
       ELSE "none"
\* The functions called, in order.
CallNames == [i \in 1..Len(stsCalls) |-> stsCalls[i].fn]
ResolutionCalls ==
    <<"validateParams", "AccessTokenSignature", "GetAccessTokenSession", "ValidateAccessToken">>

\* C22: PopulateTokenEndpointResponse returns the error of the first failing
\* check in the order gate, parameter validation, subject-token resolution,
\* client continuity, grant-type permission, request-audience scope, openid
\* scope, session integrity, minting, whatever later checks would fail too,
\* and it makes no call of a later step: no storage lookup after a failed gate
\* or parameter check, no minting after any failed check.
C22_CheckOrder ==
    Populated =>
        LET first == FirstFailing
            stored == AccessTokenSignature(requester.Form.subject_token)
                        \in DOMAIN accessTokenStorage
        IN /\ first = "gate" => stsErr.name = "ErrUnknownRequest" /\ CallNames = <<>>
           /\ first = "params" =>
                 stsErr.name = "ErrInvalidRequest" /\ CallNames = <<"validateParams">>
           /\ first = "token" =>
                 IF stored
                 THEN stsErr = stsCalls[4].err /\ CallNames = ResolutionCalls
                 ELSE stsErr.name = "ErrRequestUnauthorized"
                      /\ CallNames = SubSeq(ResolutionCalls, 1, 3)
           /\ first = "client" => stsErr.name = "ErrInvalidGrant"
           /\ first = "grant" => stsErr.name = "ErrUnauthorizedClient"
           /\ first = "audience scope" =>
                 stsErr = WithHint("ErrAccessDenied",
                                   <<"Missing the %q scope.", "pinniped:request-audience">>)
           /\ first = "openid scope" =>
                 stsErr = WithHint("ErrAccessDenied", <<"Missing the %q scope.", "openid">>)
           /\ first = "session" => stsErr.name \in {"ErrServerError", "ErrAccessDenied"}
           /\ first \in {"client", "grant", "audience scope", "openid scope", "session"} =>
                 CallNames = ResolutionCalls
           /\ first = "mint" =>
                 /\ stsErr = stsCalls[5].err
                 /\ CallNames = Append(ResolutionCalls, "GenerateIDToken")
           /\ first = "none" =>
                 stsErr = NilErr /\ CallNames = Append(ResolutionCalls, "GenerateIDToken")

\* A client without the token exchange grant presented a token whose grant
\* lacks both scopes and whose session is of another type: the grant-type
\* error was returned.
C22_Witness ==
    /\ Populated /\ Resolved
    /\ Original.Client.ID = requester.Client.ID
    /\ requester.Client.GrantTypes = <<"authorization_code">>
    /\ ~Granted("pinniped:request-audience") /\ ~Granted("openid")
    /\ Original.Session.type # "PinnipedSession"
    /\ stsErr.name = "ErrUnauthorizedClient"

\* The audience fooxpinniped.devbar, and the place of '.pinniped.dev' in an
\* audience (0 when it is not in it).
FooxPinnipedDevBar ==
    <<"f", "o", "o", "x", "p", "i", "n", "n", "i", "p", "e", "d", ".", "d", "e", "v",
      "b", "a", "r">>
DotPinnipedDevAt(a, i) ==
    /\ i + 12 <= Len(a)
    /\ [k \in 1..13 |-> a[i + k - 1]]
         = <<".", "p", "i", "n", "n", "i", "p", "e", "d", ".", "d", "e", "v">>

\* C23 as stated: the audience fooxpinniped.devbar, in which pinniped.dev is
\* not preceded by a dot, is refused with ErrInvalidRequest.
C23_Original ==
    (Populated /\ OtherParamsValid /\ requester.Form.audience = FooxPinnipedDevBar) =>
        stsErr.name = "ErrInvalidRequest"

\* C23, amended: with the other parameters valid, an audience is refused with
\* ErrInvalidRequest for containing '.pinniped.dev' exactly when these thirteen
\* characters, the dot included, stand somewhere in it; fooxpinniped.devbar,
\* where an x stands for the dot, is accepted by validateParams.
C23_Amended ==
    (Populated /\ OtherParamsValid /\ requester.Form.audience # <<>>) =>
        LET a == requester.Form.audience
            refused == stsErr = WithHint("ErrInvalidRequest",
                                         <<"requested audience cannot contain '.pinniped.dev'">>)
        IN /\ refused <=> \E i \in 1..Len(a) : DotPinnipedDevAt(a, i)
           /\ a = FooxPinnipedDevBar =>
                 /\ stsCalls[1] = CallOf("validateParams", requester.Form, NilErr)
                 /\ Len(stsCalls) >= 2
                 /\ stsErr.name # "ErrInvalidRequest"

\* The audience fooxpinniped.devbar passed validateParams and a token was
\* minted for it.
C23_Witness ==
    /\ Populated /\ OtherParamsValid
    /\ requester.Form.audience = FooxPinnipedDevBar
    /\ stsErr = NilErr /\ Minted

\* C28: when PopulateTokenEndpointResponse returns an error, at whatever step,
\* a failure of GenerateIDToken included, the responder is as it was before
\* the call; the access token, token_type and issued_token_type are set on
\* success only, and all three together.
C28_ResponderFrame ==
    /\ stsPc \in {"request", "handled"} => responder = EmptyResponder
    /\ Populated =>
          /\ stsErr # NilErr => responder = EmptyResponder
          /\ stsErr = NilErr =>
                /\ responder.AccessToken # <<>>
                /\ responder.TokenType = "N_A"
                /\ responder.Extra = {<<"issued_token_type", tokenTypeJWT>>}
          /\ (responder.AccessToken = <<>>) = (responder.TokenType = "")
          /\ (responder.TokenType = "") = (responder.Extra = {})

\* GenerateIDToken failed and the responder was left empty.
C28_Witness ==
    /\ Populated /\ Minted
    /\ stsErr # NilErr /\ stsErr = stsCalls[Len(stsCalls)].err
    /\ responder = EmptyResponder

\* C21: a call of UpdateAPIService that returns no error has written the
\* latest stored version of the APIService with only its CA bundle replaced
\* by the given bytes, after a fresh Get following every conflict; a call that
\* returns an error returns the first error of Get or Update that is not a
\* conflict, wrapped as "could not update API service: ...", and made no call
\* after it.
C21_UpdateAPIService ==
    /\ upd.pc # "idle" =>
         \A i \in 1..Len(upd.calls) :
            /\ i < Len(upd.calls) =>
                  /\ upd.calls[i].err \in {NoError, ConflictError}
                  /\ upd.calls[i].err = ConflictError => upd.calls[i + 1].fn = "Get"
            /\ (i = Len(upd.calls) /\ upd.calls[i].err = ConflictError) => upd.pc = "get"
    /\ (upd.pc = "done" /\ upd.err = NoError) =>
          /\ upd.fetched = upd.before
          /\ upd.written.GroupPriorityMinimum = upd.before.GroupPriorityMinimum
          /\ upd.written.CABundle = upd.caInput
          /\ upd.calls[Len(upd.calls)] = [fn |-> "Update", err |-> NoError]
    /\ (upd.pc = "done" /\ upd.err # NoError) =>
          /\ upd.err = Wrapped("could not update API service",
                          IF upd.calls[Len(upd.calls)].fn = "Get"
                          THEN Wrapped("could not get existing version of API service", ErrorOnGet)
                          ELSE ErrorOnUpdate)
          /\ upd.calls[Len(upd.calls)].err \in {ErrorOnGet, ErrorOnUpdate}
          /\ upd.written = [nil |-> TRUE]

\* The update met a conflict after the stored priority went from 111 to 222,
\* and the retry wrote 222 with the new CA bundle.
C21_Witness ==
    /\ upd.pc = "done" /\ upd.err = NoError
    /\ \E i \in 1..Len(upd.calls) : upd.calls[i].err = ConflictError
    /\ upd.calls[1].fn = "Get"
    /\ upd.written.GroupPriorityMinimum = 222
    /\ upd.written.CABundle = "some-ca-bundle"
    /\ store = upd.written

\* C29: the token exchange never changes the access-token storage and calls
\* nothing of it but GetAccessTokenSession; so after an exchange that
\* succeeded, an exchange of the same subject token, for the same or another
\* audience, finds the session again and passes the checks of client, grant
\* type, scopes and session again: it can only fail on its audience or on
\* what the token and ID-token strategies answer this time.
C29_StorageReadOnly ==
    /\ accessTokenStorage = InitialStorage
    /\ \A i \in 1..Len(stsCalls) :
         stsCalls[i].fn \in {"validateParams", "AccessTokenSignature", "GetAccessTokenSession",
                             "ValidateAccessToken", "GenerateIDToken"}
    /\ (Populated /\ lastExchange.done /\ lastExchange.err = NilErr) =>
          /\ ~LookupFailed
          /\ \/ stsErr = NilErr
             \/ stsErr.name = "ErrInvalidRequest" /\ Len(stsCalls) = 1
             \/ ValidationFailed /\ stsErr = stsCalls[4].err
             \/ Minted /\ stsErr = stsCalls[5].err

\* A subject token exchanged for cluster-a was exchanged again, for another
\* audience.
C29_Witness ==
    /\ Populated /\ lastExchange.done /\ lastExchange.err = NilErr
    /\ lastExchange.audience = <<"c", "l", "u", "s", "t", "e", "r", "-", "a">>
    /\ requester.Form.audience = FooxPinnipedDevBar
    /\ stsErr = NilErr /\ Minted

\* C30: in every interleaving of concurrent calls on one Provider, each call
\* holds a connection no other call holds, every command on a connection was
\* issued by the call that dialed it, a returned call closed its connection
\* once, the Provider's configuration is the one it was constructed with, and
\* the result of a returned call is the result of that call run alone against
\* the same directory.
C30_ConcurrentCalls ==
    /\ c = workers.config
    /\ \A k \in 1..Len(workers.conns) :
         LET cn == workers.conns[k]
         IN /\ Len(cn.by) = Len(cn.cmds)
            /\ \A i \in 1..Len(cn.cmds) : cn.by[i] = cn.owner
            /\ cn.closes <= 1
            /\ workers.calls[cn.owner].conn = k
            /\ cn.open = (workers.calls[cn.owner].pc # "returned")
            /\ \A i \in 1..Len(cn.cmds) : cn.cmds[i].cmd = "Close" => i = Len(cn.cmds)
    /\ \A w \in Workers :
         LET call == workers.calls[w]
         IN /\ call.conn # 0 => workers.conns[call.conn].owner = w
            /\ call.pc = "returned" =>
                  /\ call.ret = authenticateUserImplAlone(c, workers.dir, call.op,
                                                          call.username, call.password)
                  /\ call.conn # 0 => workers.conns[call.conn].closes = 1

\* Worker 1 dialed first and is between its search and its end-user bind,
\* while worker 2, which dialed after it, has authenticated alice and returned.
C30_Witness ==
    /\ workers.calls[1].pc = "endUserBind" /\ workers.calls[1].conn = 1
    /\ workers.calls[1].op = "AuthenticateUser"
    /\ workers.conns[1].open /\ Len(workers.conns[1].cmds) = 2
    /\ workers.calls[2].pc = "returned" /\ workers.calls[2].conn = 2
    /\ workers.calls[2].op = "AuthenticateUser"
    /\ workers.calls[2].ret.authenticated
    /\ workers.calls[2].ret = authenticateUserImplAlone(c, workers.dir, "AuthenticateUser", "alice", "pw")
    /\ Len(workers.conns[2].cmds) = 4 /\ ~workers.conns[2].open

(***************************************************************************)
(* Claims about the results of the LDAP provider (Spec)                    *)
(***************************************************************************)
\* The method returned.
Returned == pc = "returned"
\* The configuration passes validateConfig.
ConfigValid == ~(c.UserSearch.UsernameAttribute = "dn" /\ c.UserSearch.Filter = "")
\* The i-th command on the connection was cmd and returned no error.
Succeeded(i, cmd) ==
    Len(conn.cmds) >= i /\ conn.cmds[i].cmd = cmd /\ conn.errs[i] = Nil
\* The i-th command on the connection was cmd and returned an error.
Failed(i, cmd) ==
    Len(conn.cmds) >= i /\ conn.cmds[i].cmd = cmd /\ conn.errs[i] # Nil
\* The commands of kind cmd on the connection.
Issued(cmd) == {i \in 1..Len(conn.cmds) : conn.cmds[i].cmd = cmd}
\* The value attribute attr resolves to on entry e: the DN for "dn", else the
\* single value of the attribute; "" when it does not resolve.
ValueOf(e, attr) ==
    IF attr = "dn" THEN e.DN
    ELSE LET named == {i \in 1..Len(e.Attributes) : e.Attributes[i].Name = attr}
         IN IF Cardinality(named) = 1 /\ \A i \in named : Len(e.Attributes[i].Values) = 1
            THEN e.Attributes[CHOOSE i \in named : TRUE].Values[1]
            ELSE ""
\* The method returned (nil, false, nil).
Unauthenticated == ret = [response |-> NilResponse, authenticated |-> FALSE, err |-> Nil]

\* C12: AuthenticateUser returns (response, true, nil) exactly when the config
\* is valid, the username is not empty, the dial and the service-account bind
\* succeeded, the search returned exactly one entry with a non-empty DN, both
\* mapped attributes resolve to non-empty values and the end-user bind
\* succeeded; then Name and UID are the mapped values and Groups is empty.
\* It never reports authenticated otherwise.
C12_AuthenticateSuccess ==
    (Returned /\ op = "AuthenticateUser") =>
        LET success == ret.authenticated /\ ret.err = Nil /\ ret.response # NilResponse
            conditions ==
                /\ ConfigValid
                /\ username # ""
                /\ conn.dialed
                /\ Succeeded(1, "Bind")
                /\ Succeeded(2, "Search")
                /\ Len(searchResult) = 1
                /\ searchResult[1].DN # ""
                /\ ValueOf(searchResult[1], c.UserSearch.UsernameAttribute) # ""
                /\ ValueOf(searchResult[1], c.UserSearch.UIDAttribute) # ""
                /\ Succeeded(3, "Bind")
        IN /\ success <=> conditions
           /\ ret.authenticated => success
           /\ success =>
                 ret.response =
                     [Name |-> ValueOf(searchResult[1], c.UserSearch.UsernameAttribute),
                      UID |-> ValueOf(searchResult[1], c.UserSearch.UIDAttribute),
                      Groups |-> <<>>]

\* AuthenticateUser succeeded with the cn as the name and the DN as the UID.
C12_Witness ==
    /\ Returned /\ op = "AuthenticateUser"
    /\ c.UserSearch.UsernameAttribute = "cn" /\ c.UserSearch.UIDAttribute = "dn"
    /\ Succeeded(3, "Bind")
    /\ ret = [response |-> [Name |-> "v1", UID |-> "cn=alice,ou=users,dc=x", Groups |-> <<>>],
              authenticated |-> TRUE, err |-> Nil]

\* C13: when the search succeeded, zero entries make AuthenticateUser and
\* DryRunAuthenticateUser return (nil, false, nil), two or more entries make
\* them return an error, and one entry with an empty DN makes them return an
\* error; in each of these cases no end-user bind was attempted: the only Bind
\* on the connection is the service account's.
C13_SearchCardinality ==
    (Returned /\ op # "TestConnection" /\ Succeeded(2, "Search")) =>
        LET noEndUserBind == Issued("Bind") = {1} /\ Issued("Search") = {2}
            failed == ret.err # Nil /\ ~ret.authenticated /\ ret.response = NilResponse
        IN /\ Len(searchResult) = 0 => Unauthenticated /\ noEndUserBind
           /\ Len(searchResult) >= 2 =>
                 /\ failed /\ noEndUserBind
                 /\ ret.err.msg = "searching for user \"%s\" resulted in %d search results, but expected 1 result"
           /\ (Len(searchResult) = 1 /\ searchResult[1].DN = "") =>
                 /\ failed /\ noEndUserBind
                 /\ ret.err.msg = "searching for user \"%s\" resulted in search result without DN"

\* AuthenticateUser found two entries for the username and returned an error.
C13_Witness ==
    /\ Returned /\ op = "AuthenticateUser" /\ Succeeded(2, "Search")
    /\ Len(searchResult) = 2
    /\ ret.err # Nil /\ ret.err.args = <<"alice", "2">>
    /\ conn.cmds[3].cmd = "Close"

\* C14: when the end-user bind of AuthenticateUser fails with an error whose
\* text starts with the result code 49 prefix, the call returns
\* (nil, false, nil); when it fails with any other error, the call returns
\* (nil, false, err) with err wrapping the bind error; a failed end-user bind
\* never gives authenticated = true.
C14_EndUserBindOutcome ==
    (Returned /\ op = "AuthenticateUser" /\ Failed(3, "Bind")) =>
        LET bindErr == conn.errs[3]
            wrongPassword == bindErr.msg = "LDAP Result Code 49 \"Invalid Credentials\":"
        IN /\ ~ret.authenticated /\ ret.response = NilResponse
           /\ wrongPassword => ret.err = Nil
           /\ ~wrongPassword =>
                 /\ ret.err # Nil
                 /\ ret.err.wraps = bindErr
                 /\ ret.err.msg = "error binding for user \"%s\" using provided password against DN \"%s\": %w"
                 /\ ret.err.args = <<username, searchResult[1].DN>>

\* The end-user bind failed with a network error, which AuthenticateUser
\* returned wrapped.
C14_Witness ==
    /\ Returned /\ op = "AuthenticateUser" /\ Failed(3, "Bind")
    /\ conn.errs[3] = NetworkError
    /\ ret.err # Nil /\ ret.err.wraps = NetworkError

\* C15: with UsernameAttribute "dn" and an empty Filter, TestConnection,
\* AuthenticateUser and DryRunAuthenticateUser return the configuration error,
\* for every username, the empty one included, and never dial, bind or search.
C15_ConfigInvariant ==
    (~ConfigValid /\ pc # "idle") =>
        /\ conn = NoConn
        /\ pc \in {"validateConfig", "returned"}
        /\ Returned =>
              ret = [response |-> NilResponse, authenticated |-> FALSE,
                     err |-> [msg |-> "must specify UserSearch Filter when UserSearch UsernameAttribute is \"dn\"",
                              args |-> <<>>, wraps |-> Nil]]

\* DryRunAuthenticateUser with an empty username returned the configuration
\* error.
C15_Witness ==
    /\ Returned /\ ~ConfigValid
    /\ op = "DryRunAuthenticateUser" /\ username = ""
    /\ ret.err # Nil /\ conn = NoConn

\* C16: with a valid configuration and an empty username, AuthenticateUser and
\* DryRunAuthenticateUser return (nil, false, nil) and never dial, bind or
\* search.
C16_EmptyUsername ==
    (ConfigValid /\ op # "TestConnection" /\ username = "" /\ pc # "idle") =>
        /\ conn = NoConn
        /\ pc \in {"validateConfig", "returned"}
        /\ Returned => Unauthenticated

\* AuthenticateUser with an empty username returned (nil, false, nil).
C16_Witness ==
    /\ Returned /\ ConfigValid
    /\ op = "AuthenticateUser" /\ username = ""
    /\ Unauthenticated /\ conn = NoConn

\* C20: TestConnection dials, binds once as the service account and closes
\* the connection; it never searches and never binds a second time. With a
\* valid configuration it returns nil exactly when the dial and the bind
\* succeeded; a failed dial gives an error that names the host, with no Bind
\* attempted; a failed bind gives another error, which names the bind
\* username and wraps the bind error.
C20_TestConnection ==
    op = "TestConnection" =>
        /\ Issued("Search") = {}
        /\ Issued("Bind") \subseteq {1}
        /\ 1 \in Issued("Bind") => conn.cmds[1] = BindCmd(c.BindUsername, c.BindPassword)
        /\ (Returned /\ ConfigValid) =>
              /\ ret.response = NilResponse /\ ~ret.authenticated
              /\ ret.err = Nil <=> (conn.dialed /\ Succeeded(1, "Bind"))
              /\ ~conn.dialed =>
                    /\ conn.cmds = <<>>
                    /\ ret.err.msg = "error dialing host \"%s\": %w"
                    /\ ret.err.args = <<c.Host>>
              /\ conn.dialed =>
                    /\ Len(conn.cmds) = 2 /\ conn.cmds[2].cmd = "Close" /\ ~conn.open
                    /\ Failed(1, "Bind") =>
                          /\ ret.err.msg = "error binding as \"%s\": %w"
                          /\ ret.err.args = <<c.BindUsername>>
                          /\ ret.err.wraps = conn.errs[1]

\* TestConnection failed to bind with invalid credentials and returned the
\* bind error, the connection closed.
C20_Witness ==
    /\ Returned /\ op = "TestConnection" /\ ConfigValid
    /\ conn.dialed /\ Failed(1, "Bind") /\ conn.errs[1] = InvalidCredentials
    /\ ret.err # Nil /\ ret.err.args = <<"cn=admin,dc=x">>
    /\ conn.closes = 1

\* C24, as stated: once the context of a call is cancelled, the call issues no
\* further Bind or Search: the connection gets no command but Close.
C24_AbortOnCancel ==
    [][ctxDone =>
         \A i \in 1..Len(conn'.cmds) :
            i > Len(conn.cmds) => conn'.cmds[i].cmd = "Close"]_vars

\* The values entry e carries for attribute attr.
ValuesOf(e, attr) ==
    LET named == {i \in 1..Len(e.Attributes) : e.Attributes[i].Name = attr}
    IN IF named = {} THEN <<>> ELSE e.Attributes[CHOOSE i \in named : TRUE].Values
\* The error that attribute attr of entry e gives, "" when it maps to a value.
MappingDefect(e, attr) ==
    IF attr = "dn" THEN ""
    ELSE IF Len(ValuesOf(e, attr)) # 1 THEN "count"
    ELSE IF ValuesOf(e, attr)[1] = "" THEN "empty"
    ELSE ""
\* The error returned tells defect d of attribute attr for the username.
TellsDefect(d, attr, e) ==
    IF d = "count"
    THEN /\ ret.err.msg = "found %d values for attribute \"%s\" while searching for user \"%s\", but expected 1 result"
         /\ ret.err.args = <<ToString(Len(ValuesOf(e, attr))), attr, username>>
    ELSE /\ ret.err.msg = "found empty value for attribute \"%s\" while searching for user \"%s\", but expected value to be non-empty"
         /\ ret.err.args = <<attr, username>>

\* C27: the search request asks for UsernameAttribute and UIDAttribute except
\* those named "dn"; on the one entry found, an attribute named "dn" maps to
\* the DN, and any other must carry exactly one value, not empty: no value,
\* several values or an empty value make the call return an error that names
\* the attribute and the username (the username attribute first), with no
\* end-user bind attempted.
C27_AttributeMapping ==
    LET ua == c.UserSearch.UsernameAttribute
        uida == c.UserSearch.UIDAttribute
    IN /\ \A i \in Issued("Search") :
            conn.cmds[i].req.Attributes =
                (IF ua = "dn" THEN <<>> ELSE <<ua>>) \o (IF uida = "dn" THEN <<>> ELSE <<uida>>)
       /\ (Returned /\ op # "TestConnection" /\ Succeeded(2, "Search")
             /\ Len(searchResult) = 1 /\ searchResult[1].DN # "") =>
            LET e == searchResult[1]
                first == IF MappingDefect(e, ua) # "" THEN ua ELSE uida
            IN /\ MappingDefect(e, first) # "" =>
                    /\ ret.err # Nil /\ ~ret.authenticated /\ ret.response = NilResponse
                    /\ TellsDefect(MappingDefect(e, first), first, e)
                    /\ Issued("Bind") = {1}
               /\ (MappingDefect(e, ua) = "" /\ MappingDefect(e, uida) = ""
                     /\ ret.authenticated) =>
                    /\ ret.response.Name = (IF ua = "dn" THEN e.DN ELSE ValuesOf(e, ua)[1])
                    /\ ret.response.UID = (IF uida = "dn" THEN e.DN ELSE ValuesOf(e, uida)[1])

\* AuthenticateUser found an entry with two values for the UID attribute and
\* returned the error, without binding as the user.
C27_Witness ==
    /\ Returned /\ op = "AuthenticateUser" /\ Succeeded(2, "Search")
    /\ Len(searchResult) = 1 /\ searchResult[1].DN # ""
    /\ c.UserSearch.UsernameAttribute = "dn" /\ c.UserSearch.UIDAttribute = "uid"
    /\ ValuesOf(searchResult[1], "uid") = <<"v1", "v2">>
    /\ ret.err # Nil /\ ret.err.args = <<"2", "uid", "alice">>
    /\ Len(conn.cmds) = 3

(***************************************************************************)
(* Claims about pairs of calls of the LDAP provider (SpecPair)             *)
(***************************************************************************)
\* The call in progress, as prev records a call.
Current ==
    [op |-> op, username |-> username, conn |-> conn, searchResult |-> searchResult,
     ret |-> ret]
\* What the directory answered to call r up to its search: whether the dial
\* succeeded, the errors of the service-account bind and of the search, and
\* the entries found.
Answers(r) ==
    [dialed |-> r.conn.dialed,
     errs |-> SubSeq(r.conn.errs, 1,
                     Cardinality({i \in 1..Len(r.conn.cmds) :
                                    i <= 2 /\ r.conn.cmds[i].cmd # "Close"})),
     entries |-> r.searchResult]
\* Call r bound as the end user and the bind failed.
EndUserBindFailed(r) ==
    Len(r.conn.cmds) >= 3 /\ r.conn.cmds[3].cmd = "Bind" /\ r.conn.errs[3] # Nil
\* a is an AuthenticateUser call and d a DryRunAuthenticateUser call for the
\* same username that got the same answers from the directory.
SameUserSameAnswers(a, d) ==
    /\ a.op = "AuthenticateUser" /\ d.op = "DryRunAuthenticateUser"
    /\ a.username = d.username
    /\ Answers(a) = Answers(d)

\* C17: DryRunAuthenticateUser never binds as the end user; for the same
\* username and the same answers of the directory it returns exactly what
\* AuthenticateUser returns when the end-user bind succeeds, and the same
\* values and errors when AuthenticateUser ends before the end-user bind.
C17_DryRunEquivalence ==
    /\ op = "DryRunAuthenticateUser" => Issued("Bind") \subseteq {1}
    /\ Returned =>
          /\ (SameUserSameAnswers(prev, Current) /\ ~EndUserBindFailed(prev)) =>
                ret = prev.ret
          /\ (SameUserSameAnswers(Current, prev) /\ ~EndUserBindFailed(Current)) =>
                ret = prev.ret

\* A dry run after a successful AuthenticateUser for the same user returned
\* the same response, without the third command.
C17_Witness ==
    /\ Returned /\ SameUserSameAnswers(prev, Current)
    /\ prev.ret.authenticated /\ ret.authenticated /\ ret = prev.ret
    /\ Len(prev.conn.cmds) = 4 /\ prev.conn.cmds[3].cmd = "Bind"
    /\ Len(conn.cmds) = 3 /\ conn.cmds[3].cmd = "Close"

(***************************************************************************)
(* Claims about the search filter (SpecFilter)                             *)
(***************************************************************************)
\* A username without any special character, and not a part of any Filter.
Benign == <<"z">>
\* The escaped text of username u: ( ) * and \ written as a backslash and two
\* hexadecimal digits.
Escaped(u) ==
    LET code(ch) ==
            IF ch = "(" THEN <<"\\", "2", "8">>
            ELSE IF ch = ")" THEN <<"\\", "2", "9">>
            ELSE IF ch = "*" THEN <<"\\", "2", "a">>
            ELSE IF ch = "\\" THEN <<"\\", "5", "c">>
            ELSE <<ch>>
        RECURSIVE all(_)
        all(t) == IF t = <<>> THEN <<>> ELSE code(t[1]) \o all(Tail(t))
    IN all(u)
\* How often character ch occurs in s.
Count(s, ch) == Cardinality({i \in 1..Len(s) : s[i] = ch})

\* C18: the filter built for a username is the filter built for a benign
\* username with the benign name replaced by the escaped text of the username,
\* and it has as many opening parentheses, closing parentheses and asterisks
\* as the benign one: a username, whatever it contains, adds, removes or closes
\* no parenthesis and brings in no wildcard.
C18_EscapedUsername ==
    filter # <<>> =>
        LET benign == userSearchFilter(fcfg, Benign)
        IN /\ filter = ReplaceAll(benign, Benign, Escaped(fusername))
           /\ Count(filter, "(") = Count(benign, "(")
           /\ Count(filter, ")") = Count(benign, ")")
           /\ Count(filter, "*") = Count(benign, "*")
           /\ filter[1] = "(" /\ filter[Len(filter)] = ")"

\* The filter for a username of an asterisk, a closing and an opening
\* parenthesis, under the Filter (m={}).
C18_Witness ==
    /\ fcfg.Filter = <<"(", "m", "=", "{", "}", ")">>
    /\ fusername = <<"*", ")", "(">>
    /\ filter = <<"(", "m", "=", "\\", "2", "a", "\\", "2", "9", "\\", "2", "8", ")">>

\* The opening minus the closing parentheses among the first i characters of s.
Depth(s, i) ==
    Cardinality({k \in 1..i : s[k] = "("}) - Cardinality({k \in 1..i : s[k] = ")"})
\* s is enclosed in balanced outer parentheses: it starts with a parenthesis
\* that is closed by its last character, and by none before.
Enclosed(s) ==
    /\ Len(s) >= 2 /\ s[1] = "(" /\ s[Len(s)] = ")"
    /\ \A i \in 1..(Len(s) - 1) : Depth(s, i) >= 1
    /\ Depth(s, Len(s)) = 0

\* C25, as stated: with an empty Filter the filter is "(" + UsernameAttribute
\* + "=" + escape(U) + ")"; otherwise it is the Filter with every marker
\* replaced by escape(U), in one pass, wrapped in one pair of parentheses
\* exactly when that text is not already enclosed in balanced outer
\* parentheses.
C25_FilterConstruction ==
    filter # <<>> =>
        LET substituted ==
                ReplaceAll(fcfg.Filter, <<"{", "}">>, Escaped(fusername))
        IN IF fcfg.Filter = <<>>
           THEN filter = <<"(">> \o fcfg.UsernameAttribute \o <<"=">>
                           \o Escaped(fusername) \o <<")">>
           ELSE filter = IF Enclosed(substituted) THEN substituted
                         ELSE <<"(">> \o substituted \o <<")">>

(***************************************************************************)
(* Claims about the host (SpecHost)                                        *)
(***************************************************************************)
\* A name or a port: one or more characters, none of them a colon or a bracket.
Plain(str) == str # <<>> /\ \A i \in 1..Len(str) : str[i] \in {"h", "1"}
\* The host is [v6] with v6 made of colons and digits, from position 1 to end.
BracketedTo(str, end) ==
    /\ 3 <= end /\ end <= Len(str)
    /\ str[1] = "[" /\ str[end] = "]"
    /\ \A i \in 2..(end - 1) : str[i] \in {":", "1"}
\* The position of the colon that separates a plain port from what is before.
PortColon(str) == CHOOSE i \in 0..Len(str) :
    \/ i = 0 /\ ~\E k \in 1..Len(str) : str[k] = ":" /\ Plain(SubSeq(str, k + 1, Len(str)))
    \/ i > 0 /\ str[i] = ":" /\ Plain(SubSeq(str, i + 1, Len(str)))
\* dial was run on the host.
Dialled == hostOut # [pending |-> TRUE]

\* C26: for a host of the forms h, h:port, [v6] and [v6]:port, dial calls the
\* dialer with a string that net.SplitHostPort parses; a host without a port
\* gets the port 636, and a host with a port keeps its host and its port; a host that
\* hostAndPortWithDefaultPort cannot parse, as a bare ::1, makes dial return a
\* network error without a dialer being called.
C26_HostAndPort ==
    Dialled =>
        LET n == Len(hostIn)
            i == PortColon(hostIn)
            noPort == Plain(hostIn) \/ BracketedTo(hostIn, n)
            withPort == i > 1 /\ (Plain(SubSeq(hostIn, 1, i - 1)) \/ BracketedTo(hostIn, i - 1))
        IN /\ noPort =>
                 /\ hostOut.dialer = <<hostIn \o <<":", "6", "3", "6">> >>
                 /\ SplitHostPort(hostOut.dialer[1]).err = ""
                 /\ SplitHostPort(hostOut.dialer[1]).port = <<"6", "3", "6">>
           /\ withPort =>
                 /\ Len(hostOut.dialer) = 1
                 /\ SplitHostPort(hostOut.dialer[1]).err = ""
                 /\ SplitHostPort(hostOut.dialer[1]).port = SubSeq(hostIn, i + 1, n)
                 /\ SplitHostPort(hostOut.dialer[1]).host = SplitHostPort(hostIn).host
                 /\ Plain(SubSeq(hostIn, 1, i - 1)) => hostOut.dialer = <<hostIn>>
           /\ hostIn = <<":", ":", "1">> => hostOut.dialer = <<>>
           /\ hostOut.dialer = <<>> =>
                 /\ hostOut.err.class = "ErrorNetwork"
                 /\ hostOut.err.wraps = SplitHostPort(hostIn).err
                 /\ hostOut.err.wraps \notin {"", "missing port in address"}

\* dial of the host [::1] called the dialer with [::1]:636.
C26_Witness ==
    /\ hostIn = <<"[", ":", ":", "1", "]">>
    /\ Dialled
    /\ hostOut.dialer = << <<"[", ":", ":", "1", "]", ":", "6", "3", "6">> >>

(***************************************************************************)
(* Claims about the configuration (SpecConfig)                             *)
(***************************************************************************)
\* C19, as stated: whatever a caller does with the configuration value it gave
\* to New or got from GetConfig, the bytes of the CABundle included, the
\* configuration the Provider returns and dials with stays what it was.
C19_ReadOnlyConfig ==
    /\ BytesOf(caBundle) = InitialBundle
    /\ rootCAs \in {<<>>, InitialBundle}
    /\ c.Host = "ldap.example.com:8443"

====
